---- MODULE Spec2Model ----
(***************************************************************************)
(* ctx-zip: compaction of tool-calling conversations.                      *)
(*                                                                         *)
(* Tool-result payloads are written to a storage adapter and replaced by a *)
(* short reference; the reader tools (read_file, grep_and_search_file) may *)
(* later fetch a payload back, but only for (storage, key) pairs found in  *)
(* the process-wide registry of known keys.                                *)
(*                                                                         *)
(* Python strings are sequences of tokens: a token is one character where  *)
(* the code looks at characters ("/", ".", "\\", "CR", "LF") and a chunk   *)
(* of other characters elsewhere.  Python values are tagged records.       *)
(***************************************************************************)
EXTENDS Integers, Sequences, FiniteSets, TLC

(* ---------------------------------------------------------------- bounds *)

\* longest sequence handed to detect_window_range on its own
MaxWinLen == 5

\* longest conversation drawn at Init
MaxMsgs == 3
\* longest tool-result payload string drawn at Init (in characters)
MaxStrLen == 2
\* largest count of a first-n-messages boundary passed to a compaction call
MaxCount == 2
\* most directories that calls with the default storage make in one run
MaxTmpDirs == 3
\* longest conversation that a caller grows by the results of reader tools
MaxTurns == 5
\* most parts in one tool message of a conversation that shares part objects
MaxParts == 2
\* longest logical name handed to resolve_key on its own (in characters)
MaxNameLen == 6

(* --------------------------------------------------------- Python values *)

None == [t |-> "none"]
\* a "type" or "toolName" key that a dict does not have
NoField == "<absent>"
\* a key that a dict does not have (dict.get gives None for it)
Absent == [t |-> "absent"]
Str(s) == [t |-> "str", s |-> s]
\* a JSON value that is not a string and not a metadata mapping: {"a": 1}
Obj == [t |-> "obj"]
\* a mapping carrying the fields a reader tool returns
Meta(f, k, s) == [t |-> "meta", fileName |-> f, key |-> k, storage |-> s]
\* the dict of a tool-result part's "output"
Out(ty, v, tx, f, k, s) ==
    [t |-> "out", type |-> ty, value |-> v, text |-> tx,
     fileName |-> f, key |-> k, storage |-> s]

IsStr(v) == v.t = "str"
IsDict(v) == v.t \in {"out", "meta"}
\* dict.get(name): None when the key is absent
Get(v) == IF v = Absent THEN None ELSE v

\* Python truthiness of a value
Truthy(v) ==
    CASE v.t = "none" -> FALSE
      [] v.t = "absent" -> FALSE
      [] v.t = "str" -> Len(v.s) > 0
      [] v.t = "obj" -> TRUE
      [] v.t = "meta" -> v.fileName # Absent \/ v.key # Absent \/ v.storage # Absent
      [] v.t = "out" -> \/ v.type # NoField \/ v.value # Absent \/ v.text # Absent
                        \/ v.fileName # Absent \/ v.key # Absent \/ v.storage # Absent
      [] OTHER -> TRUE

(* --------------------------------------------------------------- strings *)

RECURSIVE LStrip(_, _)
\* str.lstrip(c)
LStrip(s, c) == IF Len(s) > 0 /\ s[1] = c THEN LStrip(Tail(s), c) ELSE s

RECURSIVE RStrip(_, _)
\* str.rstrip(c)
RStrip(s, c) ==
    IF Len(s) > 0 /\ s[Len(s)] = c THEN RStrip(SubSeq(s, 1, Len(s) - 1), c) ELSE s

\* str.replace(a, b) for a single-character a
ReplaceChar(s, a, b) == [i \in 1..Len(s) |-> IF s[i] = a THEN b ELSE s[i]]

RECURSIVE RemoveDotDotSlash(_)
\* str.replace("../", ""): one left-to-right pass over non-overlapping matches
RemoveDotDotSlash(s) ==
    IF Len(s) < 3 THEN s
    ELSE IF s[1] = "." /\ s[2] = "." /\ s[3] = "/"
         THEN RemoveDotDotSlash(SubSeq(s, 4, Len(s)))
         ELSE <<s[1]>> \o RemoveDotDotSlash(Tail(s))

StartsWith(s, tok) == Len(s) > 0 /\ s[1] = tok

(* -------------------------------------------------------------- adapters *)

FileStorageAdapter(base, prefix) == [kind |-> "file", base |-> base, prefix |-> prefix]
S3StorageAdapter(bucket, prefix) == [kind |-> "s3", base |-> bucket, prefix |-> prefix]

\* a filesystem adapter on /A without prefix, and an S3 adapter on bucket b, prefix p
AdapterA == FileStorageAdapter(<<"/", "A">>, <<>>)
AdapterS == S3StorageAdapter(<<"b">>, <<"p">>)
Adapters == {AdapterA, AdapterS}

\* str(adapter): the storage identity
adapter_str(a) ==
    IF a.kind = "file"
    THEN LET base_uri == <<"file:", "/", "/">> \o a.base
         IN IF Len(a.prefix) > 0
            THEN RStrip(base_uri, "/") \o <<"/">> \o a.prefix
            ELSE base_uri
    ELSE IF Len(a.prefix) > 0
         THEN <<"s3:", "/", "/">> \o a.base \o <<"/">> \o a.prefix
         ELSE <<"s3:", "/", "/">> \o a.base

RECURSIVE RemoveAllDotDotSlash(_)
\* while "../" in s: s = s.replace("../", "")
RemoveAllDotDotSlash(s) ==
    IF RemoveDotDotSlash(s) = s THEN s ELSE RemoveAllDotDotSlash(RemoveDotDotSlash(s))

\* adapter.resolve_key(name)
resolve_key(a, name) ==
    IF a.kind = "file"
    THEN LET safe_name == LStrip(RemoveDotDotSlash(ReplaceChar(name, "\\", "/")), "/")
         IN IF Len(a.prefix) > 0
            THEN RStrip(a.prefix, "/") \o <<"/">> \o safe_name
            ELSE safe_name
    ELSE LET safe_name == RemoveAllDotDotSlash(LStrip(ReplaceChar(name, "\\", "/"), "/"))
         IN IF Len(a.prefix) > 0
            THEN RStrip(a.prefix, "/") \o <<"/">> \o safe_name
            ELSE safe_name

\* os.linesep of the platform the program runs on (POSIX)
LineSep == <<"LF">>

RECURSIVE TranslateOnWrite(_)
\* text-mode write with newline=None: every "\n" becomes os.linesep
TranslateOnWrite(s) ==
    IF Len(s) = 0 THEN <<>>
    ELSE (IF s[1] = "LF" THEN LineSep ELSE <<s[1]>>) \o TranslateOnWrite(Tail(s))

RECURSIVE UniversalNewlines(_)
\* text-mode read with newline=None: "\r\n" and a lone "\r" become "\n"
UniversalNewlines(s) ==
    IF Len(s) = 0 THEN <<>>
    ELSE IF s[1] = "CR"
         THEN IF Len(s) > 1 /\ s[2] = "LF"
              THEN <<"LF">> \o UniversalNewlines(SubSeq(s, 3, Len(s)))
              ELSE <<"LF">> \o UniversalNewlines(Tail(s))
         ELSE <<s[1]>> \o UniversalNewlines(Tail(s))

\* where the adapter keeps the object of a key: base_dir / key, or bucket + resolved key
StoragePath(a, key) ==
    IF a.kind = "file"
    THEN [kind |-> "file", root |-> a.base, key |-> key]
    ELSE [kind |-> "s3", root |-> a.base, key |-> resolve_key(a, key)]

\* adapter.write(StorageWriteParams(key, body)): the storage after a successful write
write(st, a, key, body) ==
    LET bytes == IF a.kind = "file" THEN TranslateOnWrite(body) ELSE body
    IN [p \in DOMAIN st \cup {StoragePath(a, key)} |->
            IF p = StoragePath(a, key) THEN bytes ELSE st[p]]

\* adapter.read_text(StorageReadParams(key)): the text, or the error raised
read_text(st, a, key) ==
    IF StoragePath(a, key) \notin DOMAIN st
    THEN [ok |-> FALSE, text |-> <<"File not found: ">> \o key]
    ELSE [ok |-> TRUE,
          text |-> IF a.kind = "file"
                   THEN UniversalNewlines(st[StoragePath(a, key)])
                   ELSE st[StoragePath(a, key)]]

(* -------------------------------------------------------------- registry *)

\* the new pair takes the place of the pairs registered before
register_known_key_replacing(reg, storage_uri, key) == {<<storage_uri, key>>}

\* the registry keeps one key for each storage
register_known_key_per_storage(reg, storage_uri, key) ==
    {r \in reg : r[1] # storage_uri} \cup {<<storage_uri, key>>}

\* register_known_key(storage_uri, key)
register_known_key(reg, storage_uri, key) == reg \cup {<<storage_uri, key>>}

\* a lookup by storage alone, whatever the key
is_known_key_any_key(reg, storage_uri, key) == \E r \in reg : r[1] = storage_uri

\* a lookup by key alone, whatever the storage
is_known_key_any_storage(reg, storage_uri, key) == \E r \in reg : r[2] = key

\* is_known_key(storage_uri, key)
is_known_key(reg, storage_uri, key) == <<storage_uri, key>> \in reg

(* ------------------------------------------------- messages and boundary *)

\* a message is [role, content]; content is None, Str(..) or a list of parts.
\* The parts are dicts, mutated in place: a list holds their addresses in the heap.
List(ids) == [t |-> "list", parts |-> ids]
Message(role, content) == [role |-> role, content |-> content]
\* a part: {"type", "toolName", "output"} or {"type": "text", "text"}
Part(ty, name, output, text) ==
    [type |-> ty, toolName |-> name, output |-> output, text |-> text]

SinceLastText == [type |-> "since-last-assistant-or-user-text", count |-> 0]
EntireConversation == [type |-> "entire-conversation", count |-> 0]
FirstN(n) == [type |-> "first-n-messages", count |-> n]

Max(a, b) == IF a >= b THEN a ELSE b
Min(a, b) == IF a <= b THEN a ELSE b

format_storage_path_for_display(storage_uri, key) ==
    IF Len(storage_uri) = 0 THEN key
    ELSE IF StartsWith(storage_uri, "blob:")
         THEN IF storage_uri \in {<<"blob:">>, <<"blob:", "/">>}
              THEN <<"blob:", "/", "/", "/">> \o key
              ELSE IF Len(storage_uri) >= 3 /\ storage_uri[2] = "/" /\ storage_uri[3] = "/"
                   THEN RStrip(storage_uri, "/") \o <<"/">> \o key
                   ELSE storage_uri \o <<":">> \o key
         ELSE storage_uri \o <<":">> \o key

message_has_text_content(h, message) ==
    IF message.content.t = "str" THEN TRUE
    ELSE IF message.content.t = "list"
         THEN \E j \in 1..Len(message.content.parts) :
                 /\ h[message.content.parts[j]].type = "text"
                 /\ IsStr(h[message.content.parts[j]].text)
         ELSE FALSE

\* a message with text content marks the boundary, whatever its role
IsBoundary_any_role(h, msg) == message_has_text_content(h, msg)

\* is_boundary of detect_window_start
IsBoundary(h, msg) ==
    msg.role \in {"assistant", "user"} /\ message_has_text_content(h, msg)

RECURSIVE ScanBack_first(_, _, _)
\* the scan keeps the boundary nearest to the front instead of stopping at the first
\* one it meets
ScanBack_first(h, messages, i) ==
    IF i < 0 THEN 0
    ELSE LET before == ScanBack_first(h, messages, i - 1)
         IN IF before # 0 THEN before
            ELSE IF IsBoundary(h, messages[i + 1]) THEN i + 1 ELSE 0

RECURSIVE ScanBack(_, _, _)
\* for i in range(len(messages) - 2, -1, -1): the loop from index i downwards; it
\* breaks at the first boundary with window_start = i + 1, and leaves 0 when it
\* runs out.  Indices are 0-based as in the source; messages[i] is messages[i + 1] here
ScanBack(h, messages, i) ==
    IF i < 0 THEN 0
    ELSE IF IsBoundary(h, messages[i + 1]) THEN i + 1
    ELSE ScanBack(h, messages, i - 1)

\* first-n-messages returns the count as it is
detect_window_start_unclamped(h, messages, boundary) ==
    IF boundary.type = "first-n-messages" /\ boundary.count >= 0
    THEN boundary.count
    ELSE IF boundary.type = "entire-conversation"
         THEN 0
         ELSE ScanBack(h, messages, Len(messages) - 2)

\* entire-conversation is not told apart from the default
detect_window_start_no_entire(h, messages, boundary) ==
    IF boundary.type = "first-n-messages" /\ boundary.count >= 0
    THEN Min(boundary.count, Max(0, Len(messages) - 1))
    ELSE ScanBack(h, messages, Len(messages) - 2)

detect_window_start(h, messages, boundary) ==
    IF boundary.type = "first-n-messages" /\ boundary.count >= 0
    THEN Min(boundary.count, Max(0, Len(messages) - 1))
    ELSE IF boundary.type = "entire-conversation"
         THEN 0
         ELSE ScanBack(h, messages, Len(messages) - 2)

\* the window runs to the end of the sequence
detect_window_range_to_end(h, messages, boundary) ==
    IF Len(messages) <= 1 THEN <<0, 0>>
    ELSE <<detect_window_start(h, messages, boundary), Len(messages)>>

detect_window_range(h, messages, boundary) ==
    IF Len(messages) <= 1 THEN <<0, 0>>
    ELSE <<detect_window_start(h, messages, boundary), Max(0, Len(messages) - 1)>>

is_tool_message(msg) == msg.role = "tool" /\ msg.content.t = "list"

(* ------------------------------------------------- the substitution rules *)

DefaultReaderNames == {"readFile", "grepAndSearchFile"}

\* the configured names as they are, no default for an empty list
storage_reader_set_as_configured(names) == names

\* options.storage_reader_tool_names or ["readFile", "grepAndSearchFile"], as a set
storage_reader_set(names) == IF names = {} THEN DefaultReaderNames ELSE names

\* tool_name and tool_name in storage_reader_set
IsReaderPart(names, part) ==
    part.toolName # NoField /\ part.toolName \in storage_reader_set(names)

\* any part with a truthy output, whatever its type
Qualifies_any_type(part) == Truthy(part.output)

\* the parts the loop does not skip: a tool-result with a truthy output
Qualifies(part) == part.type = "tool-result" /\ Truthy(part.output)

NoMeta == [fileName |-> None, key |-> None, storage |-> None]

\* file_name, key, storage as the reader path reads them from an output
ExtractMeta(output) ==
    IF output.t = "out"
    THEN IF output.type = "json"
         THEN IF output.value.t = "meta"
              THEN [fileName |-> Get(output.value.fileName), key |-> Get(output.value.key),
                    storage |-> Get(output.value.storage)]
              ELSE NoMeta
         ELSE [fileName |-> Get(output.fileName), key |-> Get(output.key),
               storage |-> Get(output.storage)]
    ELSE NoMeta

\* the display text of the reader path
ReaderDisplay(output) ==
    LET m == ExtractMeta(output)
    IN IF Truthy(m.storage) /\ Truthy(m.key)
       THEN <<"Read from storage: ">>
            \o format_storage_path_for_display(m.storage.s, m.key.s)
            \o <<". Key: ">> \o m.key.s
       ELSE <<"Read from file: ">>
            \o (IF Truthy(m.fileName) THEN m.fileName.s ELSE <<"<unknown>">>)

\* the reader path registers nothing
ReaderRegister_never(reg, output) == reg

\* the registry after the reader path has handled an output
ReaderRegister(reg, output) ==
    LET m == ExtractMeta(output)
    IN IF Truthy(m.storage) /\ Truthy(m.key)
       THEN register_known_key(reg, m.storage.s, m.key.s)
       ELSE reg

\* the reference goes into the "text" member: {"type": "text", "text": display}
TextOutput_text_field(display) == Out("text", Absent, Str(display), Absent, Absent, Absent)

\* {"type": "text", "value": display}
TextOutput(display) == Out("text", Str(display), Absent, Absent, Absent, Absent)

RECURSIVE JsonEscape(_)
JsonEscape(s) ==
    IF Len(s) = 0 THEN <<>>
    ELSE (CASE s[1] = "CR" -> <<"\\r">> [] s[1] = "LF" -> <<"\\n">> [] OTHER -> <<s[1]>>)
         \o JsonEscape(Tail(s))

JsonScalar(v) == IF v.t = "str" THEN <<"\"">> \o JsonEscape(v.s) \o <<"\"">> ELSE <<"null">>

\* the members of a metadata object that are present, in order
JsonFields(value) ==
    SelectSeq(<<<<"fileName", value.fileName>>, <<"key", value.key>>,
                <<"storage", value.storage>>>>,
              LAMBDA f : f[2] # Absent)

RECURSIVE JsonMembers(_)
\* the members one per line, indented by two, separated by commas
JsonMembers(fs) ==
    IF Len(fs) = 0 THEN <<>>
    ELSE <<"LF", "  \"" \o fs[1][1] \o "\": ">> \o JsonScalar(fs[1][2])
         \o (IF Len(fs) > 1 THEN <<",">> ELSE <<>>) \o JsonMembers(Tail(fs))

\* the default serialize_result: json.dumps(value, indent=2)
serialize_result(value) ==
    CASE value.t = "none" -> <<"null">>
      [] value.t = "obj" -> <<"{", "LF", "  \"a\": 1", "LF", "}">>
      [] value.t = "meta" ->
            IF Truthy(value)
            THEN <<"{">> \o JsonMembers(JsonFields(value)) \o <<"LF", "}">>
            ELSE <<"{}">>
      [] OTHER -> <<"?">>

\* a text output that carries only "value" is persisted too
ContentToPersist_text_value(output) ==
    IF output.t = "out"
    THEN IF output.type = "json" /\ output.value # Absent
         THEN IF IsStr(output.value) THEN output.value
              ELSE Str(serialize_result(output.value))
         ELSE IF output.type = "text" /\ (output.text # Absent \/ output.value # Absent)
              THEN IF output.text # Absent THEN output.text ELSE output.value
              ELSE None
    ELSE None

\* every json value goes through the serializer, strings too: json.dumps quotes them
ContentToPersist_serialize_strings(output) ==
    IF output.t = "out"
    THEN IF output.type = "json" /\ output.value # Absent
         THEN IF IsStr(output.value)
              THEN Str(<<"\"">> \o JsonEscape(output.value.s) \o <<"\"">>)
              ELSE Str(serialize_result(output.value))
         ELSE IF output.type = "text" /\ output.text # Absent
              THEN output.text
              ELSE None
    ELSE None

\* content_to_persist of the writer path: None, or the string to write
ContentToPersist(output) ==
    IF output.t = "out"
    THEN IF output.type = "json" /\ output.value # Absent
         THEN IF IsStr(output.value) THEN output.value
              ELSE Str(serialize_result(output.value))
         ELSE IF output.type = "text" /\ output.text # Absent
              THEN output.text
              ELSE None
    ELSE None

\* the reference text that replaces a written output
WrittenDisplay(adapter, key) ==
    LET adapter_uri == adapter_str(adapter)
        written_prefix == IF StartsWith(adapter_uri, "file:")
                          THEN "Written to file" ELSE "Written to storage"
    IN <<written_prefix, ": ">> \o format_storage_path_for_display(adapter_uri, key)
       \o <<". ", "Key: ">> \o key
       \o <<". Use the read/search tools to inspect its contents.">>

\* f"{uuid.uuid4()}.txt": n counts the identifiers drawn so far
FileName(n) == <<"u" \o ToString(n), ".", "txt">>

(* ------------------------------------------------- conversations at Init *)

\* a conversation as the caller writes it: parts inline, content [t |-> "plist"]
PList(parts) == [t |-> "plist", parts |-> parts]

RECURSIVE AllParts(_)
\* the part dicts of a conversation, in order of occurrence: the heap
AllParts(conv) ==
    IF Len(conv) = 0 THEN <<>>
    ELSE (IF conv[1].content.t = "plist" THEN conv[1].content.parts ELSE <<>>)
         \o AllParts(Tail(conv))

RECURSIVE Intern(_, _)
\* the messages of a conversation, each part replaced by its address
Intern(conv, offset) ==
    IF Len(conv) = 0 THEN <<>>
    ELSE IF conv[1].content.t = "plist"
         THEN LET n == Len(conv[1].content.parts)
              IN <<Message(conv[1].role, List([j \in 1..n |-> offset + j]))>>
                 \o Intern(Tail(conv), offset + n)
         ELSE <<conv[1]>> \o Intern(Tail(conv), offset)

Chars == {"a", "CR", "LF"}
SeqsUpTo(S, n) == UNION {[1..k -> S] : k \in 0..n}
Strings == SeqsUpTo(Chars, MaxStrLen)

\* a key and a file name that reader-tool results in a conversation may carry
Key0 == <<"k0", ".", "txt">>
File0 == <<"x", ".", "txt">>

ToolResult(name, output) == Part("tool-result", name, output, Absent)
TextPart == Part("text", NoField, Absent, Str(<<"t">>))

JsonOut(v) == Out("json", v, Absent, Absent, Absent, Absent)
TextOut(tx) == Out("text", Absent, tx, Absent, Absent, Absent)

\* outputs of producing tools, in every shape the writer path tells apart
WriterOutputs ==
    {JsonOut(v) : v \in {Str(<<>>), Str(<<"a">>), Obj, None, Absent}}
    \cup {TextOut(Str(<<>>)), TextOut(Str(<<"a">>)), TextOutput(<<"a">>)}
    \cup {Out("image", Str(<<"a">>), Str(<<"a">>), Absent, Absent, Absent),
          Out(NoField, Absent, Absent, Absent, Absent, Absent),
          None, Str(<<"a">>)}

MetaFileNames == {Absent, Str(File0)}
MetaKeys == {Absent, Str(<<>>), Str(Key0)}
MetaStorages == {Absent, Str(adapter_str(AdapterA))}

\* outputs of reader tools: the metadata inside a json value, or as fields of the output
ReaderOutputs ==
    {JsonOut(Meta(f, k, st)) : f \in MetaFileNames, k \in MetaKeys, st \in MetaStorages}
    \cup {Out(NoField, Absent, Absent, f, k, st) :
            f \in MetaFileNames, k \in MetaKeys, st \in MetaStorages}

ToolNames == {NoField, "readFile", "customReader"}
Parts == {ToolResult(n, o) : n \in ToolNames, o \in WriterOutputs \cup ReaderOutputs}
         \cup {TextPart, Part("image", NoField, JsonOut(Str(<<"a">>)), Absent)}

MUser == Message("user", Str(<<"hi">>))
MAssistant == Message("assistant", Str(<<"done">>))

\* one tool message with one part of any shape, in a settled turn
PartConversations == {<<MUser, Message("tool", PList(<<p>>)), MAssistant>> : p \in Parts}

\* one tool message whose payload is any string, in a settled turn
StringConversations ==
    {<<MUser, Message("tool", PList(<<ToolResult("analyze", o)>>)), MAssistant>> :
        o \in {JsonOut(Str(c)) : c \in Strings} \cup {TextOut(Str(c)) : c \in Strings}}

WriterPart == ToolResult("analyze", JsonOut(Str(<<"a">>)))
ReaderPart == ToolResult("readFile", JsonOut(Meta(Absent, Str(Key0), Str(adapter_str(AdapterA)))))
EmptyPart == ToolResult("analyze", None)
ObjectPart == ToolResult("analyze", JsonOut(Obj))

\* the messages that conversations of any layout are made of
MessageKinds ==
    {MUser, MAssistant,
     Message("assistant", None),
     Message("tool", Str(<<"raw">>)),
     Message("tool", PList(<<WriterPart, EmptyPart, ObjectPart>>)),
     Message("tool", PList(<<ReaderPart>>)),
     Message("assistant", PList(<<TextPart, WriterPart>>))}

LayoutConversations == SeqsUpTo(MessageKinds, MaxMsgs)

Conversations == LayoutConversations \cup PartConversations \cup StringConversations

(* ----------------------------------------------------------- reader tools *)

UnknownKeyText ==
    <<"Tool cannot be used: unknown key. Use a key previously surfaced via ",
      "'Written to ... Key: <key>' or 'Read from storage ... Key: <key>'. ",
      "If none exists, re-run the producing tool to persist and get a key.">>

RetryText ==
    <<". Are you sure the storage is correct? If yes, make the original ",
      "tool call again with the same arguments instead of relying on ",
      "readFile or grepAndSearchFile.">>

\* a pattern is a regular expression that does not compile, or one literal character
Patterns == {[valid |-> FALSE, tok |-> "("], [valid |-> TRUE, tok |-> "a"]}

\* str(e) of the re.error that re.compile raises for "("
RegexError == "missing ), unterminated subpattern at position 0"

\* a storage option that is a URI with a scheme create_storage_adapter does not support
BadTarget == [kind |-> "uri", base |-> <<"ftp:", "/", "/", "x">>, prefix |-> <<>>]

\* what options.storage may be: an adapter instance, or such a URI
Targets == Adapters \cup {BadTarget}

\* create_storage_adapter(options.storage): the adapter, or the error raised
create_storage_adapter(target) ==
    IF target.kind \in {"file", "s3"}
    THEN [ok |-> TRUE, adapter |-> target, error |-> <<>>]
    ELSE [ok |-> FALSE, adapter |-> target,
          error |-> <<"Unsupported storage URI scheme: ", "ftp">>]

\* the exception of a failed read leaves read_file
read_file_propagating(reg, st, target, key) ==
    LET made == create_storage_adapter(target)
        storage_uri == adapter_str(made.adapter)
    IN IF ~made.ok
       THEN [key |-> key, content |-> <<>>, storage |-> <<"unknown">>, reads |-> <<>>,
             raised |-> TRUE]
       ELSE IF ~is_known_key(reg, storage_uri, key)
            THEN [key |-> key, content |-> UnknownKeyText, storage |-> storage_uri,
                  reads |-> <<>>, raised |-> FALSE]
            ELSE LET r == read_text(st, made.adapter, key)
                 IN [key |-> key,
                     content |-> IF r.ok THEN r.text ELSE <<>>,
                     storage |-> storage_uri,
                     reads |-> <<StoragePath(made.adapter, key)>>,
                     raised |-> ~r.ok]

\* read_file(key, ReadFileOptions(storage=target)): the dict returned; in "reads" the
\* storage paths on which adapter.read_text was called, and in "raised" whether the
\* call ended with an exception instead of a dict
read_file(reg, st, target, key) ==
    LET made == create_storage_adapter(target)
        storage_uri == adapter_str(made.adapter)
    IN IF ~made.ok
       THEN [key |-> key,
             content |-> <<"Error reading file: ">> \o made.error \o RetryText,
             storage |-> <<"unknown">>, reads |-> <<>>, raised |-> FALSE]
       ELSE IF ~is_known_key(reg, storage_uri, key)
            THEN [key |-> key, content |-> UnknownKeyText, storage |-> storage_uri,
                  reads |-> <<>>, raised |-> FALSE]
            ELSE LET r == read_text(st, made.adapter, key)
                 IN [key |-> key,
                     content |-> IF r.ok THEN r.text
                                 ELSE <<"Error reading file: ">> \o r.text \o RetryText,
                     storage |-> storage_uri,
                     reads |-> <<StoragePath(made.adapter, key)>>,
                     raised |-> FALSE]

RECURSIVE SplitLines(_, _)
\* str.splitlines(): cur is the line being read; a final line break ends no empty line
SplitLines(s, cur) ==
    IF Len(s) = 0 THEN (IF Len(cur) = 0 THEN <<>> ELSE <<cur>>)
    ELSE IF s[1] = "CR" /\ Len(s) > 1 /\ s[2] = "LF"
         THEN <<cur>> \o SplitLines(SubSeq(s, 3, Len(s)), <<>>)
         ELSE IF s[1] \in {"CR", "LF"}
              THEN <<cur>> \o SplitLines(Tail(s), <<>>)
              ELSE SplitLines(Tail(s), Append(cur, s[1]))

\* pattern.search(line) for a literal pattern
Search(pattern, line) == \E i \in 1..Len(line) : line[i] = pattern.tok

\* grep_object(adapter, key, pattern): the matching lines with their numbers; every
\* error, a failed read included, is swallowed and gives no match.  The payloads of
\* this model that parse as JSON are already in json.dumps(obj, indent=2) form.
grep_object(st, adapter, key, pattern) ==
    LET r == read_text(st, adapter, key)
        lines == IF r.ok THEN SplitLines(r.text, <<>>) ELSE <<>>
    IN SelectSeq([i \in 1..Len(lines) |-> [line_number |-> i, content |-> lines[i]]],
                 LAMBDA m : Search(pattern, m.content))

\* the pattern is compiled after the storage has been searched
grep_and_search_file_compile_last(reg, st, target, key, pattern) ==
    LET made == create_storage_adapter(target)
        storage_uri == adapter_str(made.adapter)
    IN IF ~made.ok
       THEN [key |-> key, pattern |-> pattern.tok,
             content |-> <<"Error searching file: ">> \o made.error \o RetryText,
             storage |-> <<"unknown">>, matches |-> <<>>, hasMatches |-> FALSE,
             reads |-> <<>>, raised |-> FALSE]
       ELSE IF ~is_known_key(reg, storage_uri, key)
            THEN [key |-> key, pattern |-> pattern.tok, content |-> UnknownKeyText,
                  storage |-> storage_uri, matches |-> <<>>, hasMatches |-> FALSE,
                  reads |-> <<>>, raised |-> FALSE]
            ELSE IF ~pattern.valid
                 THEN [key |-> key, pattern |-> pattern.tok,
                       content |-> <<"Invalid regex: ", RegexError>>,
                       storage |-> <<>>, matches |-> <<>>, hasMatches |-> FALSE,
                       reads |-> <<StoragePath(made.adapter, key)>>, raised |-> FALSE]
                 ELSE [key |-> key, pattern |-> pattern.tok, content |-> <<>>,
                       storage |-> storage_uri,
                       matches |-> grep_object(st, made.adapter, key, pattern),
                       hasMatches |-> TRUE,
                       reads |-> <<StoragePath(made.adapter, key)>>, raised |-> FALSE]

\* grep_and_search_file(key, pattern, options=GrepAndSearchFileOptions(storage=target)):
\* the dict returned.  hasMatches tells whether it has a "matches" member; content is
\* empty when it has no "content" member, storage when it has no "storage" member.
grep_and_search_file(reg, st, target, key, pattern) ==
    LET made == create_storage_adapter(target)
        storage_uri == adapter_str(made.adapter)
    IN IF ~pattern.valid
       THEN [key |-> key, pattern |-> pattern.tok,
             content |-> <<"Invalid regex: ", RegexError>>,
             storage |-> <<>>, matches |-> <<>>, hasMatches |-> FALSE, reads |-> <<>>,
             raised |-> FALSE]
       ELSE IF ~made.ok
            THEN [key |-> key, pattern |-> pattern.tok,
                  content |-> <<"Error searching file: ">> \o made.error \o RetryText,
                  storage |-> <<"unknown">>, matches |-> <<>>, hasMatches |-> FALSE,
                  reads |-> <<>>, raised |-> FALSE]
            ELSE IF ~is_known_key(reg, storage_uri, key)
                 THEN [key |-> key, pattern |-> pattern.tok, content |-> UnknownKeyText,
                       storage |-> storage_uri, matches |-> <<>>, hasMatches |-> FALSE,
                       reads |-> <<>>, raised |-> FALSE]
                 ELSE [key |-> key, pattern |-> pattern.tok, content |-> <<>>,
                       storage |-> storage_uri,
                       matches |-> grep_object(st, made.adapter, key, pattern),
                       hasMatches |-> TRUE,
                       reads |-> <<StoragePath(made.adapter, key)>>, raised |-> FALSE]

(* ------------------------------------------------------------------ state *)

VARIABLES
    messages,   \* the caller's conversation: a sequence of messages
    heap,       \* the part dicts of the conversation, by address
    registry,   \* _known_keys: the set of (storage_uri, key) pairs
    store,      \* what the storage holds: path -> stored characters
    nextId,     \* the number of the next fresh uuid
    pc,         \* where the caller is: "idle", "running", "returned", "raised", "read",
                \* "ranged", "resolved" or "threads"
    opts,       \* the caller's CompactOptions: storage, reader names, boundary of the call
    msgs,       \* its local list msgs = list(messages)
    win,        \* its window <<window_start, end_exclusive>>
    cur,        \* <<i, j>>: the next part the loops look at, messages[i].content[j]
    pre,        \* heap, registry and storage as they were when the call began
    calls,      \* the calls the compaction call has made to the adapter, in order
    written,    \* every body handed to a successful adapter.write, with its key and
                \* whether clear_known_keys() has run since
    lastCall,   \* the last call a caller made outside compaction (a reader tool, or
                \* resolve_key on an adapter) and what it returned
    registered, \* the pairs register_known_key() has been called with since the last
                \* clear_known_keys()
    prev,       \* the result of a compaction call that the caller has kept to compact it
                \* again, with the options of that call
    tmpDirs,    \* the number of directories tempfile.mkdtemp() has made
    threads     \* the calls that run at the same time, each in a thread of its own:
                \* thread -> its local variables

vars == <<messages, heap, registry, store, nextId, pc, opts, msgs, win, cur, pre,
          calls, written, lastCall, registered, prev, tmpDirs, threads>>

\* the state of the callers that keep results, use the default storage or run threads
callerState == <<prev, tmpDirs, threads>>

Boundaries == {SinceLastText, EntireConversation} \cup {FirstN(n) : n \in 0..MaxCount}
ReaderNameLists == {{}, {"customReader"}}
Options == [boundary : Boundaries, adapter : Adapters, readers : ReaderNameLists]

NoPre == [heap |-> <<>>, registry |-> {}, store |-> <<>>]
NoPrev == [kept |-> FALSE, opts |-> [boundary |-> SinceLastText, adapter |-> AdapterA,
                                     readers |-> {}], heap |-> <<>>]
NoCall == [tool |-> "none", adapter |-> AdapterA, key |-> <<>>,
           pattern |-> [valid |-> TRUE, tok |-> "a"],
           result |-> [key |-> <<>>, content |-> <<>>, storage |-> <<>>, reads |-> <<>>,
                       raised |-> FALSE]]

\* the state after construction, for a caller holding one of the given conversations
InitFrom(convs) ==
    /\ \E conv \in convs :
          /\ messages = Intern(conv, 0)
          /\ heap = AllParts(conv)
    /\ registry = {}
    /\ registered = {}
    /\ store = <<>>
    /\ nextId = 1
    /\ pc = "idle"
    /\ opts \in {o \in Options : o.boundary = SinceLastText}
    /\ msgs = <<>>
    /\ win = <<0, 0>>
    /\ cur = <<0, 1>>
    /\ pre = NoPre
    /\ calls = <<>>
    /\ written = {}
    /\ lastCall = NoCall
    /\ prev = NoPrev
    /\ tmpDirs = 0
    /\ threads = <<>>

Init == InitFrom(Conversations)

(* --------------------------------------------------------- compaction call *)

\* ends_with_assistant_text
\* the last message has text content, whatever its role
EndsWithText(h, ms) ==
    /\ Len(ms) > 0
    /\ message_has_text_content(h, ms[Len(ms)])

EndsWithAssistantText(h, ms) ==
    /\ Len(ms) > 0
    /\ ms[Len(ms)].role = "assistant"
    /\ message_has_text_content(h, ms[Len(ms)])

\* the end of range(window_start, min(end_exclusive, len(msgs)))
EndX == Min(win[2], Len(msgs))

RECURSIVE Seek_every_message(_, _, _, _, _)
\* the loops run over every message with a list content, to the end of the sequence
Seek_every_message(h, ms, endx, i, j) ==
    IF i >= Len(ms) THEN <<i, 1, FALSE>>
    ELSE IF ms[i + 1].content.t # "list" THEN Seek_every_message(h, ms, endx, i + 1, 1)
    ELSE IF j > Len(ms[i + 1].content.parts) THEN Seek_every_message(h, ms, endx, i + 1, 1)
    ELSE IF Qualifies(h[ms[i + 1].content.parts[j]]) THEN <<i, j, TRUE>>
    ELSE Seek_every_message(h, ms, endx, i, j + 1)

RECURSIVE Seek(_, _, _, _, _)
\* the next part at or after messages[i].content[j] that the loops do not skip: in a
\* tool message with a list content, a tool-result with a truthy output.  The third
\* component tells whether there is one.
Seek(h, ms, endx, i, j) ==
    IF i >= endx THEN <<i, 1, FALSE>>
    ELSE IF ~is_tool_message(ms[i + 1]) THEN Seek(h, ms, endx, i + 1, 1)
    ELSE IF j > Len(ms[i + 1].content.parts) THEN Seek(h, ms, endx, i + 1, 1)
    ELSE IF Qualifies(h[ms[i + 1].content.parts[j]]) THEN <<i, j, TRUE>>
    ELSE Seek(h, ms, endx, i, j + 1)

Pos == Seek(heap, msgs, EndX, cur[1], cur[2])
AtPart == pc = "running" /\ Pos[3]
\* the address of the part the call is at, and the part
CurId == msgs[Pos[1] + 1].content.parts[Pos[2]]
CurPart == heap[CurId]

\* msgs = list(messages); return msgs when it is empty or the turn is not settled
CompactNotSettled(boundary) ==
    /\ pc = "idle"
    /\ ~EndsWithAssistantText(heap, messages)
    /\ pc' = "returned"
    /\ opts' = [opts EXCEPT !.boundary = boundary]
    /\ msgs' = messages
    /\ win' = <<0, 0>>
    /\ cur' = <<0, 1>>
    /\ pre' = [heap |-> heap, registry |-> registry, store |-> store]
    /\ calls' = <<>>
    /\ UNCHANGED <<callerState, registered, messages, heap, registry, store, nextId,
                   written, lastCall>>

\* msgs = list(messages); the window is computed and the loop begins
CompactStart(boundary) ==
    /\ pc = "idle"
    /\ EndsWithAssistantText(heap, messages)
    /\ pc' = "running"
    /\ opts' = [opts EXCEPT !.boundary = boundary]
    /\ msgs' = messages
    /\ win' = detect_window_range(heap, messages, boundary)
    /\ cur' = <<win'[1], 1>>
    /\ pre' = [heap |-> heap, registry |-> registry, store |-> store]
    /\ calls' = <<>>
    /\ UNCHANGED <<callerState, registered, messages, heap, registry, store, nextId,
                   written, lastCall>>

\* the reader path: the output of a reader tool is replaced by a description
ReaderStep ==
    /\ AtPart
    /\ IsReaderPart(opts.readers, CurPart)
    /\ heap' = [heap EXCEPT ![CurId].output = TextOutput(ReaderDisplay(CurPart.output))]
    /\ registry' = ReaderRegister(registry, CurPart.output)
    /\ registered' = IF /\ Truthy(ExtractMeta(CurPart.output).storage)
                        /\ Truthy(ExtractMeta(CurPart.output).key)
                     THEN registered \cup {<<ExtractMeta(CurPart.output).storage.s,
                                              ExtractMeta(CurPart.output).key.s>>}
                     ELSE registered
    /\ cur' = <<Pos[1], Pos[2] + 1>>
    /\ UNCHANGED <<callerState, messages, store, nextId, pc, opts, msgs, win, pre, calls,
                   written, lastCall>>

\* the writer path with nothing to persist: continue
WriterNoop ==
    /\ AtPart
    /\ ~IsReaderPart(opts.readers, CurPart)
    /\ ~Truthy(ContentToPersist(CurPart.output))
    /\ cur' = <<Pos[1], Pos[2] + 1>>
    /\ UNCHANGED <<callerState, registered, messages, heap, registry, store, nextId, pc,
                   opts, msgs, win, pre, calls, written, lastCall>>

\* the writer path: resolve_key, write, replace the output, register the key
WriterStep ==
    /\ AtPart
    /\ ~IsReaderPart(opts.readers, CurPart)
    /\ Truthy(ContentToPersist(CurPart.output))
    /\ LET key == resolve_key(opts.adapter, FileName(nextId))
           body == ContentToPersist(CurPart.output).s
       IN /\ store' = write(store, opts.adapter, key, body)
          /\ heap' = [heap EXCEPT ![CurId].output =
                          TextOutput(WrittenDisplay(opts.adapter, key))]
          /\ registry' = register_known_key(registry, adapter_str(opts.adapter), key)
          /\ registered' = registered \cup {<<adapter_str(opts.adapter), key>>}
          /\ calls' = calls \o <<[op |-> "resolve_key", part |-> CurId, key |-> key,
                                  ok |-> TRUE],
                                 [op |-> "write", part |-> CurId, key |-> key,
                                  ok |-> TRUE]>>
          /\ written' = written \cup {[storage |-> adapter_str(opts.adapter),
                                       key |-> key, body |-> body,
                                       cleared |-> FALSE]}
    /\ nextId' = nextId + 1
    /\ cur' = <<Pos[1], Pos[2] + 1>>
    /\ UNCHANGED <<callerState, messages, pc, opts, msgs, win, pre, lastCall>>

\* adapter.write raises, the error is swallowed and the loop goes on
WriterFail_swallowed ==
    /\ AtPart
    /\ ~IsReaderPart(opts.readers, CurPart)
    /\ Truthy(ContentToPersist(CurPart.output))
    /\ LET key == resolve_key(opts.adapter, FileName(nextId))
       IN calls' = calls \o <<[op |-> "resolve_key", part |-> CurId, key |-> key,
                               ok |-> TRUE],
                              [op |-> "write", part |-> CurId, key |-> key,
                               ok |-> FALSE]>>
    /\ cur' = <<Pos[1], Pos[2] + 1>>
    /\ UNCHANGED <<callerState, registered, messages, heap, registry, store, nextId, pc,
                   opts, msgs, win, pre, written, lastCall>>

\* the writer path when adapter.write raises: the error leaves the call
WriterFail ==
    /\ AtPart
    /\ ~IsReaderPart(opts.readers, CurPart)
    /\ Truthy(ContentToPersist(CurPart.output))
    /\ LET key == resolve_key(opts.adapter, FileName(nextId))
       IN calls' = calls \o <<[op |-> "resolve_key", part |-> CurId, key |-> key,
                               ok |-> TRUE],
                              [op |-> "write", part |-> CurId, key |-> key,
                               ok |-> FALSE]>>
    /\ pc' = "raised"
    /\ UNCHANGED <<callerState, registered, messages, heap, registry, store, nextId, opts,
                   msgs, win, cur, pre, written, lastCall>>

\* the loops are over: return msgs
CompactReturn ==
    /\ pc = "running"
    /\ ~Pos[3]
    /\ pc' = "returned"
    /\ cur' = <<Pos[1], Pos[2]>>
    /\ UNCHANGED <<callerState, registered, messages, heap, registry, store, nextId, opts,
                   msgs, win, pre, calls, written, lastCall>>

(* ------------------------------------------------------- the other callers *)

\* the keys a caller may ask a reader tool for: the key that reader results of the
\* conversations carry, and the key under which each adapter keeps its first write
AskKeys == {Key0} \cup {resolve_key(a, FileName(1)) : a \in Adapters}

\* reading a key makes it known
ReadFileCall_registering(adapter, key) ==
    /\ pc = "idle"
    /\ pc' = "read"
    /\ lastCall' = [tool |-> "readFile", adapter |-> adapter, key |-> key,
                    pattern |-> [valid |-> TRUE, tok |-> "a"],
                    result |-> read_file(registry, store, adapter, key)]
    /\ registry' = IF adapter \in Adapters
                   THEN register_known_key(registry, adapter_str(adapter), key)
                   ELSE registry
    /\ UNCHANGED <<callerState, registered, messages, heap, store, nextId, opts, msgs, win,
                   cur, pre, calls, written>>

\* read_file(key, ReadFileOptions(storage=adapter)), adapter being any storage option
ReadFileCall(adapter, key) ==
    /\ pc = "idle"
    /\ pc' = "read"
    /\ lastCall' = [tool |-> "readFile", adapter |-> adapter, key |-> key,
                    pattern |-> [valid |-> TRUE, tok |-> "a"],
                    result |-> read_file(registry, store, adapter, key)]
    /\ UNCHANGED <<callerState, registered, messages, heap, registry, store, nextId, opts,
                   msgs, win, cur, pre, calls, written>>

\* grep_and_search_file(key, pattern, options=GrepAndSearchFileOptions(storage=adapter))
GrepCall(adapter, key, pattern) ==
    /\ pc = "idle"
    /\ pc' = "read"
    /\ lastCall' = [tool |-> "grepAndSearchFile", adapter |-> adapter, key |-> key,
                    pattern |-> pattern,
                    result |-> grep_and_search_file(registry, store, adapter, key, pattern)]
    /\ UNCHANGED <<callerState, registered, messages, heap, registry, store, nextId, opts,
                   msgs, win, cur, pre, calls, written>>

\* clear_known_keys()
ClearKnownKeys ==
    /\ pc = "idle"
    /\ registry # {}
    /\ registry' = {}
    /\ registered' = {}
    /\ written' = {[w EXCEPT !.cleared = TRUE] : w \in written}
    /\ UNCHANGED <<callerState, messages, heap, store, nextId, pc, opts, msgs, win, cur,
                   pre, calls, lastCall>>

\* register_known_key(str(adapter), key), called by a caller directly
RegisterCall(adapter, key) ==
    /\ pc = "idle"
    /\ registry' = register_known_key(registry, adapter_str(adapter), key)
    /\ registered' = registered \cup {<<adapter_str(adapter), key>>}
    /\ UNCHANGED <<callerState, messages, heap, store, nextId, pc, opts, msgs, win, cur,
                   pre, calls, written, lastCall>>

\* the caller has taken the result of a call; the next call may begin
Done ==
    /\ pc \in {"returned", "raised", "read", "resolved"}
    /\ pc' = "idle"
    /\ opts' = [opts EXCEPT !.boundary = SinceLastText]
    /\ msgs' = <<>>
    /\ win' = <<0, 0>>
    /\ cur' = <<0, 1>>
    /\ pre' = NoPre
    /\ calls' = <<>>
    /\ lastCall' = NoCall
    /\ UNCHANGED <<callerState, registered, messages, heap, registry, store, nextId,
                   written>>

Next ==
    \/ \E b \in Boundaries : CompactNotSettled(b)
    \/ \E b \in Boundaries : CompactStart(b)
    \/ ReaderStep
    \/ WriterNoop
    \/ WriterStep
    \/ WriterFail
    \/ CompactReturn
    \/ \E a \in Targets, k \in AskKeys : ReadFileCall(a, k)
    \/ \E a \in Targets, k \in AskKeys, p \in Patterns : GrepCall(a, k, p)
    \/ ClearKnownKeys
    \/ Done

Spec == Init /\ [][Next]_vars

(* ---- callers that also register keys themselves ---- *)

\* an empty conversation, and one with written, skipped and read results
KeyConversations ==
    {<<>>,
     <<Message("tool", PList(<<WriterPart, EmptyPart, ObjectPart>>)),
       Message("tool", PList(<<ReaderPart>>)),
       MAssistant>>}

InitKeys == InitFrom(KeyConversations)

NextKeys ==
    \/ Next
    \/ \E a \in Adapters, k \in AskKeys : RegisterCall(a, k)

SpecKeys == InitKeys /\ [][NextKeys]_vars

(* ---- detect_window_range on its own ---- *)

\* the messages that the window computation tells apart: by role and by text content
WindowKinds == MessageKinds \ {Message("tool", PList(<<ReaderPart>>))}

WindowConversations == SeqsUpTo(WindowKinds, MaxWinLen)

\* every boundary, with counts up to beyond the longest sequence
WindowBoundaries ==
    {SinceLastText, EntireConversation} \cup {FirstN(n) : n \in 0..(MaxWinLen + 1)}

InitWindow ==
    /\ InitFrom(WindowConversations)
    /\ opts.adapter = AdapterA
    /\ opts.readers = {}

\* start, end_exclusive = detect_window_range(messages, boundary)
WindowCall(boundary) ==
    /\ pc \in {"idle", "ranged"}
    /\ pc' = "ranged"
    /\ opts' = [opts EXCEPT !.boundary = boundary]
    /\ win' = detect_window_range(heap, messages, boundary)
    /\ UNCHANGED <<callerState, registered, messages, heap, registry, store, nextId, msgs,
                   cur, pre, calls, written, lastCall>>

NextWindow == \E b \in WindowBoundaries : WindowCall(b)

SpecWindow == InitWindow /\ [][NextWindow]_vars

(* ---- conversations in which one part object occurs more than once ---- *)

\* the part dicts a caller holds: a reader result, two results to persist, an empty one
AliasHeap == <<ReaderPart, WriterPart, ObjectPart, EmptyPart>>

\* the contents of a tool message: up to MaxParts references to those dicts, repeats
\* included; two tool messages and a closing assistant text; and one turn that is not
\* settled
InitAlias ==
    /\ messages \in
          LET lists == SeqsUpTo(1..Len(AliasHeap), MaxParts) \ {<<>>}
          IN  {<<Message("tool", List(l1)), Message("tool", List(l2)), MAssistant>> :
                  l1 \in lists, l2 \in lists}
              \cup {<<Message("tool", List(<<1, 1>>))>>}
    /\ heap = AliasHeap
    /\ registry = {}
    /\ registered = {}
    /\ store = <<>>
    /\ nextId = 1
    /\ pc = "idle"
    /\ opts \in {o \in Options : o.boundary = SinceLastText}
    /\ msgs = <<>>
    /\ win = <<0, 0>>
    /\ cur = <<0, 1>>
    /\ pre = NoPre
    /\ calls = <<>>
    /\ written = {}
    /\ lastCall = NoCall
    /\ prev = NoPrev
    /\ tmpDirs = 0
    /\ threads = <<>>

\* compaction calls, one after the other
NextCompact ==
    \/ \E b \in Boundaries : CompactNotSettled(b)
    \/ \E b \in Boundaries : CompactStart(b)
    \/ ReaderStep
    \/ WriterNoop
    \/ WriterStep
    \/ WriterFail
    \/ CompactReturn
    \/ Done

SpecAlias == InitAlias /\ [][NextCompact]_vars

(* ---- callers that compact the result of a compaction again ---- *)

\* the caller keeps the sequence a compaction call has returned, to hand it to the
\* next call
KeepResult ==
    /\ pc = "returned"
    /\ prev' = [kept |-> TRUE, opts |-> opts, heap |-> heap]
    /\ pc' = "idle"
    /\ opts' = [opts EXCEPT !.boundary = SinceLastText]
    /\ msgs' = <<>>
    /\ win' = <<0, 0>>
    /\ cur' = <<0, 1>>
    /\ pre' = NoPre
    /\ calls' = <<>>
    /\ UNCHANGED <<tmpDirs, threads, registered, messages, heap, registry, store, nextId,
                   written, lastCall>>

NextAgain ==
    \/ NextCompact
    \/ KeepResult

SpecAgain == Init /\ [][NextAgain]_vars

(* ---- calls that run at the same time ---- *)

\* Two compaction calls, each on a conversation of its own, and a caller of read_file
\* run in threads of one process.  They share the registry, the storage and the source
\* of uuids; a step is one statement of the code, and the steps of the threads
\* interleave in every order.  set.add and the membership test on _known_keys are each
\* one step: the interpreter runs them without interruption.

Compactors == {"c1", "c2"}
Readers == {"r1"}

\* the local variables of a compaction call that has not begun
CompactorLocal(conv, adapter) ==
    [pc |-> "idle", msgs |-> Intern(conv, 0), heap |-> AllParts(conv),
     before |-> AllParts(conv), adapter |-> adapter, readers |-> {},
     boundary |-> SinceLastText, win |-> <<0, 0>>, cur |-> <<0, 1>>,
     at |-> 0, key |-> <<>>,
     keys |-> {},    \* the keys this call has resolved
     regs |-> {}]    \* the pairs this call has registered

\* the local variables of a caller of read_file between two calls
ReaderLocal ==
    [pc |-> "idle", adapter |-> AdapterA, key |-> <<>>, known |-> FALSE,
     content |-> <<>>,
     after |-> {}]   \* the pairs registered by the compaction calls that had returned
                     \* when the call began

InitBare ==
    /\ InitFrom({<<>>})
    /\ opts.adapter = AdapterA
    /\ opts.readers = {}

\* the threads are made: threading.Thread(target=compact_messages_sync, ...), each on
\* one of two conversations; the second holds a result whose payload is the empty string
Spawn ==
    /\ pc = "idle"
    /\ threads = <<>>
    /\ \E conv1, conv2 \in
             {<<Message("tool", PList(<<WriterPart, ReaderPart>>)), MAssistant>>,
              <<Message("tool", PList(<<ObjectPart, ToolResult("analyze", JsonOut(Str(<<>>))),
                                        WriterPart>>)), MAssistant>>},
          a1 \in Adapters, a2 \in Adapters :
          threads' = [t \in Compactors \cup Readers |->
                        CASE t = "c1" -> CompactorLocal(conv1, a1)
                          [] t = "c2" -> CompactorLocal(conv2, a2)
                          [] OTHER -> ReaderLocal]
    /\ pc' = "threads"
    /\ UNCHANGED <<prev, tmpDirs, registered, messages, heap, registry, store, nextId,
                   opts, msgs, win, cur, pre, calls, written, lastCall>>

\* what a step of a thread leaves alone: the variables of the sequential callers
Sequential ==
    <<prev, tmpDirs, registered, messages, heap, pc, opts, msgs, win, cur, pre, calls,
      written, lastCall>>

\* the next part the loops of thread t do not skip
TPos(t) ==
    Seek(threads[t].heap, threads[t].msgs,
         Min(threads[t].win[2], Len(threads[t].msgs)),
         threads[t].cur[1], threads[t].cur[2])
TId(t) == threads[t].msgs[TPos(t)[1] + 1].content.parts[TPos(t)[2]]
TPart(t) == threads[t].heap[TId(t)]
TAtPart(t) == threads[t].pc = "loop" /\ TPos(t)[3]

\* msgs = list(messages); return when the turn is not settled, else the window
TStart(t) ==
    /\ t \in DOMAIN threads
    /\ threads[t].pc = "idle"
    /\ threads' =
          [threads EXCEPT
             ![t].pc = IF EndsWithAssistantText(threads[t].heap, threads[t].msgs)
                       THEN "loop" ELSE "returned",
             ![t].win = detect_window_range(threads[t].heap, threads[t].msgs,
                                            threads[t].boundary),
             ![t].cur = <<detect_window_range(threads[t].heap, threads[t].msgs,
                                              threads[t].boundary)[1], 1>>]
    /\ UNCHANGED <<Sequential, registry, store, nextId>>

\* the reader path up to register_known_key(storage, key)
TReaderRegister(t) ==
    /\ t \in DOMAIN threads
    /\ TAtPart(t)
    /\ IsReaderPart(threads[t].readers, TPart(t))
    /\ registry' = ReaderRegister(registry, TPart(t).output)
    /\ threads' =
          [threads EXCEPT
             ![t].pc = "readSubstitute",
             ![t].at = TId(t),
             ![t].regs = IF /\ Truthy(ExtractMeta(TPart(t).output).storage)
                            /\ Truthy(ExtractMeta(TPart(t).output).key)
                         THEN @ \cup {<<ExtractMeta(TPart(t).output).storage.s,
                                        ExtractMeta(TPart(t).output).key.s>>}
                         ELSE @]
    /\ UNCHANGED <<Sequential, store, nextId>>

\* part["output"] = {"type": "text", "value": display}; continue
TReaderSubstitute(t) ==
    /\ t \in DOMAIN threads
    /\ threads[t].pc = "readSubstitute"
    /\ threads' =
          [threads EXCEPT
             ![t].pc = "loop",
             ![t].heap[threads[t].at].output =
                 TextOutput(ReaderDisplay(threads[t].heap[threads[t].at].output)),
             ![t].cur = <<TPos(t)[1], TPos(t)[2] + 1>>]
    /\ UNCHANGED <<Sequential, registry, store, nextId>>

\* the writer path with nothing to persist: continue
TSkip(t) ==
    /\ t \in DOMAIN threads
    /\ TAtPart(t)
    /\ ~IsReaderPart(threads[t].readers, TPart(t))
    /\ ~Truthy(ContentToPersist(TPart(t).output))
    /\ threads' = [threads EXCEPT ![t].cur = <<TPos(t)[1], TPos(t)[2] + 1>>]
    /\ UNCHANGED <<Sequential, registry, store, nextId>>

\* the key is registered as soon as it is resolved, before the write
TResolve_registering(t) ==
    /\ t \in DOMAIN threads
    /\ TAtPart(t)
    /\ ~IsReaderPart(threads[t].readers, TPart(t))
    /\ Truthy(ContentToPersist(TPart(t).output))
    /\ nextId' = nextId + 1
    /\ registry' = register_known_key(registry, adapter_str(threads[t].adapter),
                                      resolve_key(threads[t].adapter, FileName(nextId)))
    /\ threads' =
          [threads EXCEPT
             ![t].pc = "write",
             ![t].at = TId(t),
             ![t].key = resolve_key(threads[t].adapter, FileName(nextId)),
             ![t].keys = @ \cup {resolve_key(threads[t].adapter, FileName(nextId))}]
    /\ UNCHANGED <<Sequential, store>>

\* file_name = f"{uuid.uuid4()}.txt"; key = options.adapter.resolve_key(file_name)
TResolve(t) ==
    /\ t \in DOMAIN threads
    /\ TAtPart(t)
    /\ ~IsReaderPart(threads[t].readers, TPart(t))
    /\ Truthy(ContentToPersist(TPart(t).output))
    /\ nextId' = nextId + 1
    /\ threads' =
          [threads EXCEPT
             ![t].pc = "write",
             ![t].at = TId(t),
             ![t].key = resolve_key(threads[t].adapter, FileName(nextId)),
             ![t].keys = @ \cup {resolve_key(threads[t].adapter, FileName(nextId))}]
    /\ UNCHANGED <<Sequential, registry, store>>

\* options.adapter.write(...) returns
TWrite(t) ==
    /\ t \in DOMAIN threads
    /\ threads[t].pc = "write"
    /\ store' = write(store, threads[t].adapter, threads[t].key,
                      ContentToPersist(threads[t].heap[threads[t].at].output).s)
    /\ threads' = [threads EXCEPT ![t].pc = "substitute"]
    /\ UNCHANGED <<Sequential, registry, nextId>>

\* options.adapter.write(...) raises, and the error leaves the call
TWriteFail(t) ==
    /\ t \in DOMAIN threads
    /\ threads[t].pc = "write"
    /\ threads' = [threads EXCEPT ![t].pc = "raised"]
    /\ UNCHANGED <<Sequential, registry, store, nextId>>

\* part["output"] = {"type": "text", "value": "Written to ..."}
TSubstitute(t) ==
    /\ t \in DOMAIN threads
    /\ threads[t].pc = "substitute"
    /\ threads' =
          [threads EXCEPT
             ![t].pc = "register",
             ![t].heap[threads[t].at].output =
                 TextOutput(WrittenDisplay(threads[t].adapter, threads[t].key))]
    /\ UNCHANGED <<Sequential, registry, store, nextId>>

\* register_known_key(adapter_uri, key), and on to the next part
TRegister(t) ==
    /\ t \in DOMAIN threads
    /\ threads[t].pc = "register"
    /\ registry' = register_known_key(registry, adapter_str(threads[t].adapter),
                                      threads[t].key)
    /\ threads' =
          [threads EXCEPT
             ![t].pc = "loop",
             ![t].regs = @ \cup {<<adapter_str(threads[t].adapter), threads[t].key>>},
             ![t].cur = <<TPos(t)[1], TPos(t)[2] + 1>>]
    /\ UNCHANGED <<Sequential, store, nextId>>

\* the loops are over: return msgs
TReturn(t) ==
    /\ t \in DOMAIN threads
    /\ threads[t].pc = "loop"
    /\ ~TPos(t)[3]
    /\ threads' = [threads EXCEPT ![t].pc = "returned"]
    /\ UNCHANGED <<Sequential, registry, store, nextId>>

\* read_file(key, ReadFileOptions(storage=adapter)) begins
TReadStart(r, adapter, key) ==
    /\ r \in DOMAIN threads
    /\ threads[r].pc = "idle"
    /\ threads' =
          [threads EXCEPT
             ![r].pc = "lookup",
             ![r].adapter = adapter,
             ![r].key = key,
             ![r].after = UNION {threads[t].regs :
                                  t \in {c \in Compactors : threads[c].pc = "returned"}}]
    /\ UNCHANGED <<Sequential, registry, store, nextId>>

\* if not is_known_key(storage_uri, key): return the rejection
TLookup(r) ==
    /\ r \in DOMAIN threads
    /\ threads[r].pc = "lookup"
    /\ threads' =
          [threads EXCEPT
             ![r].known = is_known_key(registry, adapter_str(threads[r].adapter),
                                       threads[r].key),
             ![r].pc = IF is_known_key(registry, adapter_str(threads[r].adapter),
                                       threads[r].key)
                       THEN "reading" ELSE "done",
             ![r].content = IF is_known_key(registry, adapter_str(threads[r].adapter),
                                            threads[r].key)
                            THEN <<>> ELSE UnknownKeyText]
    /\ UNCHANGED <<Sequential, registry, store, nextId>>

\* content = adapter.read_text(...); return, or the "Error reading file" payload
TReadText(r) ==
    /\ r \in DOMAIN threads
    /\ threads[r].pc = "reading"
    /\ threads' =
          [threads EXCEPT
             ![r].pc = "done",
             ![r].content =
                 LET got == read_text(store, threads[r].adapter, threads[r].key)
                 IN IF got.ok THEN got.text
                    ELSE <<"Error reading file: ">> \o got.text \o RetryText]
    /\ UNCHANGED <<Sequential, registry, store, nextId>>

\* the caller has taken the result
TReadTake(r) ==
    /\ r \in DOMAIN threads
    /\ threads[r].pc = "done"
    /\ threads' = [threads EXCEPT ![r] = ReaderLocal]
    /\ UNCHANGED <<Sequential, registry, store, nextId>>

NextThreads ==
    \/ Spawn
    \/ \E t \in Compactors :
          \/ TStart(t)
          \/ TReaderRegister(t)
          \/ TReaderSubstitute(t)
          \/ TSkip(t)
          \/ TResolve(t)
          \/ TWrite(t)
          \/ TWriteFail(t)
          \/ TSubstitute(t)
          \/ TRegister(t)
          \/ TReturn(t)
    \/ \E r \in Readers :
          \* the reader asks for the key of the reader result, or for a key under which
          \* an adapter keeps one of the first two writes
          \/ \E a \in Adapters,
                k \in {Key0} \cup {resolve_key(b, FileName(n)) : b \in Adapters, n \in 1..2} :
                TReadStart(r, a, k)
          \/ TLookup(r)
          \/ TReadText(r)
          \/ TReadTake(r)

SpecThreads == InitBare /\ [][NextThreads]_vars

(* ---- callers that leave the storage option out ---- *)

\* create_storage_adapter(None): a filesystem adapter on a fresh temporary directory,
\* tempfile.mkdtemp(prefix="ctxzip_"), the n-th one made
create_default_adapter(n) ==
    FileStorageAdapter(<<"/", "tmp", "/", "ctxzip_" \o ToString(n)>>, <<>>)

\* the keys under which a filesystem adapter without prefix keeps the first writes
DefaultAskKeys == {resolve_key(create_default_adapter(1), FileName(n)) : n \in 1..2}

InitDefault ==
    /\ InitFrom(KeyConversations)
    /\ opts.adapter = AdapterA
    /\ opts.readers = {}

\* compact_messages(messages, CompactOptions(boundary=boundary)): storage is None, the
\* adapter is made by create_storage_adapter(None), then the strategy begins
CompactDefault(boundary) ==
    /\ pc = "idle"
    /\ tmpDirs < MaxTmpDirs
    /\ tmpDirs' = tmpDirs + 1
    /\ opts' = [opts EXCEPT !.boundary = boundary,
                            !.adapter = create_default_adapter(tmpDirs + 1)]
    /\ msgs' = messages
    /\ IF EndsWithAssistantText(heap, messages)
       THEN /\ pc' = "running"
            /\ win' = detect_window_range(heap, messages, boundary)
       ELSE /\ pc' = "returned"
            /\ win' = <<0, 0>>
    /\ cur' = <<win'[1], 1>>
    /\ pre' = [heap |-> heap, registry |-> registry, store |-> store]
    /\ calls' = <<>>
    /\ UNCHANGED <<prev, threads, registered, messages, heap, registry, store, nextId,
                   written, lastCall>>

\* read_file(key): options has neither storage nor base_dir, so the adapter is made by
\* create_storage_adapter()
ReadFileDefault(key) ==
    /\ pc = "idle"
    /\ tmpDirs < MaxTmpDirs
    /\ tmpDirs' = tmpDirs + 1
    /\ pc' = "read"
    /\ lastCall' = [tool |-> "readFile", adapter |-> create_default_adapter(tmpDirs + 1),
                    key |-> key, pattern |-> [valid |-> TRUE, tok |-> "a"],
                    result |-> read_file(registry, store,
                                         create_default_adapter(tmpDirs + 1), key)]
    /\ UNCHANGED <<prev, threads, registered, messages, heap, registry, store, nextId,
                   opts, msgs, win, cur, pre, calls, written>>

\* grep_and_search_file(key, pattern): the pattern is compiled first, and the adapter is
\* made by create_storage_adapter() only when it compiles
GrepDefault(key, pattern) ==
    /\ pc = "idle"
    /\ tmpDirs < MaxTmpDirs
    /\ tmpDirs' = IF pattern.valid THEN tmpDirs + 1 ELSE tmpDirs
    /\ pc' = "read"
    /\ lastCall' = [tool |-> "grepAndSearchFile",
                    adapter |-> create_default_adapter(tmpDirs + 1),
                    key |-> key, pattern |-> pattern,
                    result |-> grep_and_search_file(registry, store,
                                                    create_default_adapter(tmpDirs + 1),
                                                    key, pattern)]
    /\ UNCHANGED <<prev, threads, registered, messages, heap, registry, store, nextId,
                   opts, msgs, win, cur, pre, calls, written>>

NextDefault ==
    \/ \E b \in Boundaries : CompactDefault(b)
    \/ ReaderStep
    \/ WriterNoop
    \/ WriterStep
    \/ WriterFail
    \/ CompactReturn
    \/ \E k \in DefaultAskKeys : ReadFileDefault(k)
    \/ \E k \in DefaultAskKeys, p \in Patterns : GrepDefault(k, p)
    \/ Done

SpecDefault == InitDefault /\ [][NextDefault]_vars

(* ---- an agent loop: results of the reader tools go back into the conversation ---- *)

\* the dict a reader tool returned, as the value of a json output: its "key" and its
\* "storage" member (a result without one has storage <<>>); it has no "fileName"
ResultValue(result) ==
    Meta(Absent, Str(result.key),
         IF result.storage = <<>> THEN Absent ELSE Str(result.storage))

\* conversations that hold no reader result yet
InitAgent ==
    /\ InitFrom({<<MUser>>,
                 <<MUser, Message("tool", PList(<<WriterPart, EmptyPart>>)), MAssistant>>})
    /\ opts.readers = {}

\* the caller appends the result of the reader tool as a tool message, and the
\* assistant's next text after it
PlaceResult ==
    /\ pc = "read"
    /\ Len(messages) + 2 <= MaxTurns
    /\ heap' = Append(heap, ToolResult(lastCall.tool, JsonOut(ResultValue(lastCall.result))))
    /\ messages' = messages \o <<Message("tool", List(<<Len(heap) + 1>>)), MAssistant>>
    /\ pc' = "idle"
    /\ lastCall' = NoCall
    /\ UNCHANGED <<callerState, registered, registry, store, nextId, opts, msgs, win, cur,
                   pre, calls, written>>

NextAgent ==
    \/ NextCompact
    \/ \E a \in Targets, k \in AskKeys : ReadFileCall(a, k)
    \/ \E a \in Targets, k \in AskKeys, p \in Patterns : GrepCall(a, k, p)
    \/ PlaceResult

SpecAgent == InitAgent /\ [][NextAgent]_vars

(* ---- resolve_key on its own ---- *)

\* the characters resolve_key looks at, and one other character
Names == SeqsUpTo({".", "/", "\\", "x"}, MaxNameLen)

\* key = adapter.resolve_key(name)
ResolveKeyCall(adapter, name) ==
    /\ pc = "idle"
    /\ pc' = "resolved"
    /\ lastCall' = [tool |-> "resolve_key", adapter |-> adapter, key |-> name,
                    pattern |-> [valid |-> TRUE, tok |-> "a"],
                    result |-> [key |-> resolve_key(adapter, name), content |-> <<>>,
                                storage |-> <<>>, reads |-> <<>>, raised |-> FALSE]]
    /\ UNCHANGED <<callerState, registered, messages, heap, registry, store, nextId, opts,
                   msgs, win, cur, pre, calls, written>>

\* on filesystem adapters without a prefix, with one, and with one that ends in a slash
NextResolve ==
    \/ \E a \in {AdapterA, FileStorageAdapter(<<"/", "A">>, <<"p">>),
                 FileStorageAdapter(<<"/", "A">>, <<"p", "/">>)},
          n \in Names : ResolveKeyCall(a, n)
    \/ Done

SpecResolve == InitBare /\ [][NextResolve]_vars

(* ================================================================ claims *)

\* the reader call that has just returned asked for a pair the registry holds
AskedKnown == <<adapter_str(lastCall.adapter), lastCall.key>> \in registry
\* its storage option gave an adapter, so that there is a pair to speak of
AskedAdapter == lastCall.adapter \in Adapters
\* the result carries the guidance of the unknown-key rejection
IsUnknownKeyResult ==
    /\ Len(lastCall.result.content) > 0
    /\ lastCall.result.content[1] =
          "Tool cannot be used: unknown key. Use a key previously surfaced via "

\* C1 as stated: a reader tool reads the storage only for a known (str(adapter), key)
\* pair, and for every unknown pair it answers with the unknown-key guidance and reads
\* nothing.
C1_AsStated ==
    pc = "read" =>
        /\ lastCall.result.reads # <<>> => AskedKnown
        /\ (AskedAdapter /\ ~AskedKnown) =>
              IsUnknownKeyResult /\ lastCall.result.reads = <<>>

\* C1: a reader tool reads the storage only for a known (str(adapter), key) pair, and
\* then only the object of that key; for an unknown pair it reads nothing and answers
\* with the unknown-key guidance, except that grep_and_search_file given a pattern that
\* does not compile answers "Invalid regex" before it looks at the key.
C1_ReaderGuard ==
    pc = "read" =>
        /\ lastCall.result.reads # <<>> =>
              /\ AskedKnown
              /\ lastCall.result.reads = <<StoragePath(lastCall.adapter, lastCall.key)>>
        /\ (AskedAdapter /\ ~AskedKnown) =>
              /\ lastCall.result.reads = <<>>
              /\ lastCall.result.key = lastCall.key
              /\ IF lastCall.tool = "grepAndSearchFile" /\ ~lastCall.pattern.valid
                 THEN lastCall.result.content[1] = "Invalid regex: "
                 ELSE IsUnknownKeyResult

\* a key that is in the storage but not in the registry was asked for, and rejected
C1_Witness ==
    /\ pc = "read"
    /\ AskedAdapter /\ ~AskedKnown
    /\ StoragePath(lastCall.adapter, lastCall.key) \in DOMAIN store
    /\ lastCall.tool = "grepAndSearchFile"
    /\ lastCall.pattern.valid
    /\ IsUnknownKeyResult

(* ---- what the claims about a compaction call speak of ---- *)

InCall == pc \in {"running", "returned", "raised"}

\* the reader-tool set of the call: the configured names, the two defaults when none
ReaderNames == IF opts.readers = {} THEN {"readFile", "grepAndSearchFile"} ELSE opts.readers

\* the input ended in an assistant message with text content
Settled ==
    /\ Len(messages) > 0
    /\ messages[Len(messages)].role = "assistant"
    /\ \/ messages[Len(messages)].content.t = "str"
       \/ /\ messages[Len(messages)].content.t = "list"
          /\ \E j \in 1..Len(messages[Len(messages)].content.parts) :
                LET q == pre.heap[messages[Len(messages)].content.parts[j]]
                IN q.type = "text" /\ q.text.t = "str"

\* the addresses of the parts of message i (0-based) of the input
PartsOf(i) ==
    IF messages[i + 1].content.t = "list"
    THEN {messages[i + 1].content.parts[j] : j \in 1..Len(messages[i + 1].content.parts)}
    ELSE {}

\* the parts of the tool messages inside the window [start, endExclusive)
WindowParts ==
    UNION {PartsOf(i) : i \in {k \in win[1]..(win[2] - 1) :
                                 k < Len(messages) /\ messages[k + 1].role = "tool"}}

AllPartIds == UNION {PartsOf(i) : i \in 0..(Len(messages) - 1)}

\* a part was, when the call began, a tool-result with a truthy output
WasToolResult(id) == pre.heap[id].type = "tool-result" /\ Truthy(pre.heap[id].output)
WasReaderPart(id) == pre.heap[id].toolName \in ReaderNames

\* the output was json carrying a value, or text carrying a "text" field
HadPayload(o) ==
    /\ o.t = "out"
    /\ \/ o.type = "json" /\ o.value # Absent
       \/ o.type = "text" /\ o.text # Absent

\* the content derived from such an output: the string itself, or the serialized value
Derived(o) ==
    IF o.type = "json"
    THEN IF o.value.t = "str" THEN o.value.s ELSE serialize_result(o.value)
    ELSE IF o.text.t = "str" THEN o.text.s ELSE <<>>

\* the parts C2 speaks of
WriterParts ==
    {id \in WindowParts :
        /\ pre.heap[id].type = "tool-result"
        /\ ~WasReaderPart(id)
        /\ HadPayload(pre.heap[id].output)
        /\ Derived(pre.heap[id].output) # <<>>}

\* an output is {type: "text", value: <string>} and nothing else
IsTextValue(o) ==
    /\ o.t = "out" /\ o.type = "text" /\ o.value.t = "str" /\ o.text = Absent
    /\ o.fileName = Absent /\ o.key = Absent /\ o.storage = Absent

\* the key that a reference text surfaces: what stands between "Key: " and the final
\* sentence (the whole rest for a "Read from storage" text)
KeyIn(d, last) ==
    LET at == CHOOSE i \in 1..Len(d) : d[i] = "Key: " IN SubSeq(d, at + 1, last)
HasKey(d) == \E i \in 1..Len(d) : d[i] = "Key: "
WrittenKey(id) == KeyIn(heap[id].output.value.s, Len(heap[id].output.value.s) - 1)

\* the output of a part is a "Written to ..." reference
IsWrittenRef(id) ==
    /\ IsTextValue(heap[id].output)
    /\ Len(heap[id].output.value.s) > 0
    /\ heap[id].output.value.s[1] =
          (IF opts.adapter.kind = "file" THEN "Written to file" ELSE "Written to storage")
    /\ HasKey(heap[id].output.value.s)

\* the registry entries the reader path may add in this call
ReaderEntries ==
    {<<ExtractMeta(pre.heap[id].output).storage.s, ExtractMeta(pre.heap[id].output).key.s>> :
        id \in {x \in WindowParts :
                  /\ WasToolResult(x) /\ WasReaderPart(x)
                  /\ Truthy(ExtractMeta(pre.heap[x].output).storage)
                  /\ Truthy(ExtractMeta(pre.heap[x].output).key)}}

\* C2: after a compaction call has returned on a settled conversation, every
\* tool-result part of a tool message in the window that is not a reader tool's and
\* whose output is json with a value or text with a "text" field, with a non-empty
\* derived content, is a "Written to ... Key: k" reference; the storage holds the derived
\* content under k; (str(adapter), k) is registered; and the registry has gained one
\* entry for each such part, each with a key of its own.
C2_WriterPostcondition ==
    (pc = "returned" /\ Settled) =>
        /\ \A id \in WriterParts :
              /\ IsWrittenRef(id)
              /\ StoragePath(opts.adapter, WrittenKey(id)) \in DOMAIN store
              /\ store[StoragePath(opts.adapter, WrittenKey(id))] = Derived(pre.heap[id].output)
              /\ <<adapter_str(opts.adapter), WrittenKey(id)>> \in registry \ pre.registry
        /\ \A id1, id2 \in WriterParts : id1 # id2 => WrittenKey(id1) # WrittenKey(id2)
        /\ (registry \ pre.registry) \ ReaderEntries
              = {<<adapter_str(opts.adapter), WrittenKey(id)>> : id \in WriterParts}

\* a call has returned after writing two parts, one of them a non-string json value
C2_Witness ==
    /\ pc = "returned"
    /\ \E id \in WriterParts : pre.heap[id].output.value = Obj
    /\ \E id \in WriterParts : opts.adapter.kind = "s3" /\ IsWrittenRef(id)

\* C4: the last message of the input is the last message of the output, unmodified:
\* none of its parts has been substituted.
C4_LastMessageUntouched ==
    (InCall /\ Len(messages) > 0) =>
        /\ Len(msgs) = Len(messages)
        /\ msgs[Len(msgs)] = messages[Len(messages)]
        /\ \A id \in PartsOf(Len(messages) - 1) : heap[id] = pre.heap[id]

\* a call has returned, it substituted a part, and the last message holds a tool-result
C4_Witness ==
    /\ pc = "returned"
    /\ heap # pre.heap
    /\ \E id \in PartsOf(Len(messages) - 1) : WasToolResult(id)

\* C5: when the conversation is empty or does not end in an assistant message with
\* text, the call returns a sequence equal to the input, writes nothing to the storage
\* and leaves the registry as it was.
C5_NotSettledNoop ==
    (InCall /\ ~Settled) =>
        /\ pc = "returned"
        /\ msgs = messages
        /\ heap = pre.heap
        /\ store = pre.store
        /\ registry = pre.registry
        /\ calls = <<>>

\* a call has returned on a conversation that ends in a tool message whose part the
\* writer path would persist
C5_Witness ==
    /\ pc = "returned"
    /\ Len(messages) > 1
    /\ messages[Len(messages)].role = "tool"
    /\ opts.boundary = EntireConversation
    /\ \E id \in AllPartIds :
          WasToolResult(id) /\ HadPayload(pre.heap[id].output)

\* C6: the output has the length, order and roles of the input, and every part outside
\* the window, in a message that is not a tool message, or that is not a tool-result
\* with a truthy output, is what it was in the input.
C6_Frame ==
    InCall =>
        /\ Len(msgs) = Len(messages)
        /\ \A i \in 1..Len(messages) : msgs[i] = messages[i]
        /\ \A id \in AllPartIds :
              (id \notin WindowParts \/ ~WasToolResult(id)) => heap[id] = pre.heap[id]

\* a call has returned that substituted a part, while a tool message before the window
\* and a part with an empty output inside the window stayed as they were
C6_Witness ==
    /\ pc = "returned"
    /\ heap # pre.heap
    /\ \E id \in AllPartIds \ WindowParts : WasToolResult(id)
    /\ \E id \in WindowParts : ~WasToolResult(id)

\* C3 as stated: read_file with the key of a "Written to ... Key: k" reference, on the
\* adapter that wrote it and with no clear_known_keys() in between, returns as its
\* content exactly the string that the writer path handed to the adapter.
C3_RoundTrip ==
    (pc = "read" /\ lastCall.tool = "readFile") =>
        \A w \in written :
            (/\ ~w.cleared
             /\ w.key = lastCall.key
             /\ w.storage = adapter_str(lastCall.adapter))
            => lastCall.result.content = w.body

\* the metadata of a reader part names both a storage and a key
MetaPresent(id) ==
    /\ ExtractMeta(pre.heap[id].output).storage # None
    /\ ExtractMeta(pre.heap[id].output).key # None
\* ... and neither of them is empty
MetaTruthy(id) ==
    /\ Truthy(ExtractMeta(pre.heap[id].output).storage)
    /\ Truthy(ExtractMeta(pre.heap[id].output).key)

ReadFromStorage(id) ==
    <<"Read from storage: ">>
    \o format_storage_path_for_display(ExtractMeta(pre.heap[id].output).storage.s,
                                       ExtractMeta(pre.heap[id].output).key.s)
    \o <<". Key: ">> \o ExtractMeta(pre.heap[id].output).key.s

ReadFromFile(id) ==
    <<"Read from file: ">>
    \o (IF Truthy(ExtractMeta(pre.heap[id].output).fileName)
        THEN ExtractMeta(pre.heap[id].output).fileName.s
        ELSE <<"<unknown>">>)

\* the registry entries that the writes of this call account for
WriterEntries ==
    {<<adapter_str(opts.adapter), calls[n].key>> :
        n \in {m \in 1..Len(calls) : calls[m].op = "write" /\ calls[m].ok}}

\* C7 as stated: after a call has returned, every tool-result part of a reader tool in
\* the window has the output {type: "text", value: display}, where display is the
\* "Read from storage" text and (storage, key) is registered when the metadata carries
\* both storage and key, and the "Read from file" text otherwise.
C7_AsStated ==
    (pc = "returned" /\ Settled) =>
        \A id \in WindowParts :
            (pre.heap[id].type = "tool-result" /\ WasReaderPart(id)) =>
                /\ IsTextValue(heap[id].output)
                /\ IF MetaPresent(id)
                   THEN /\ heap[id].output.value.s = ReadFromStorage(id)
                        /\ <<ExtractMeta(pre.heap[id].output).storage.s,
                             ExtractMeta(pre.heap[id].output).key.s>> \in registry
                   ELSE heap[id].output.value.s = ReadFromFile(id)

\* C7: after a call has returned, every tool-result part of a reader tool in the
\* window whose output was truthy has the output {type: "text", value: display}; when
\* the metadata carries a non-empty storage and a non-empty key, display is the "Read
\* from storage" text and (storage, key) is registered; otherwise display is the "Read
\* from file" text, and the registry has gained nothing on account of reader parts
\* without both.
C7_ReaderPathRule ==
    (pc = "returned" /\ Settled) =>
        /\ \A id \in WindowParts :
              (WasToolResult(id) /\ WasReaderPart(id)) =>
                  /\ IsTextValue(heap[id].output)
                  /\ IF MetaTruthy(id)
                     THEN /\ heap[id].output.value.s = ReadFromStorage(id)
                          /\ <<ExtractMeta(pre.heap[id].output).storage.s,
                               ExtractMeta(pre.heap[id].output).key.s>> \in registry
                     ELSE heap[id].output.value.s = ReadFromFile(id)
        /\ (registry \ pre.registry) \subseteq (ReaderEntries \cup WriterEntries)

\* a call has returned that registered the pair of a reader part, on a registry that
\* did not hold it
C7_Witness ==
    /\ pc = "returned"
    /\ \E id \in WindowParts :
          /\ WasToolResult(id) /\ WasReaderPart(id) /\ MetaTruthy(id)
          /\ <<ExtractMeta(pre.heap[id].output).storage.s,
               ExtractMeta(pre.heap[id].output).key.s>> \in registry \ pre.registry

\* C8: compaction issues no resolve_key and no write for a tool-result part whose
\* toolName is in the reader-tool set (readFile and grepAndSearchFile when the
\* configured list is empty), whatever the shape of its output.
C8_ReaderNeverPersisted ==
    InCall =>
        \A id \in AllPartIds :
            (pre.heap[id].type = "tool-result" /\ WasReaderPart(id)) =>
                \A n \in 1..Len(calls) : calls[n].part # id

\* a call with an empty configured list has returned that handled a readFile result
\* with a json value the writer path would have persisted
C8_Witness ==
    /\ pc = "returned"
    /\ opts.readers = {}
    /\ \E id \in WindowParts :
          /\ pre.heap[id].toolName = "readFile"
          /\ HadPayload(pre.heap[id].output)
          /\ Derived(pre.heap[id].output) # <<>>
          /\ heap[id] # pre.heap[id]

\* the parts C9 speaks of
NoopParts ==
    {id \in WindowParts :
        /\ pre.heap[id].type = "tool-result"
        /\ ~WasReaderPart(id)
        /\ \/ ~HadPayload(pre.heap[id].output)
           \/ Derived(pre.heap[id].output) = <<>>}

\* C9: a tool-result part in the window, not a reader tool's, whose output is neither
\* json with a value nor text with a "text" field, or whose derived content is empty,
\* is left as it was; no call to the adapter is made for it, the call does not raise
\* at it, and the registry gains nothing but what other parts account for.
C9_WriterNoop ==
    InCall =>
        /\ \A id \in NoopParts :
              /\ heap[id] = pre.heap[id]
              /\ \A n \in 1..Len(calls) : calls[n].part # id
        /\ (registry \ pre.registry) \subseteq (ReaderEntries \cup WriterEntries)

\* a call has returned on a window that held a text output carrying only "value"
C9_Witness ==
    /\ pc = "returned"
    /\ Settled
    /\ \E id \in NoopParts :
          /\ pre.heap[id].output.t = "out"
          /\ pre.heap[id].output.type = "text"
          /\ pre.heap[id].output.value # Absent

\* the place of a part in the order of the loops
PlaceOf(id) ==
    CHOOSE ij \in (0..(Len(messages) - 1)) \X (1..Len(pre.heap)) :
        /\ messages[ij[1] + 1].content.t = "list"
        /\ ij[2] <= Len(messages[ij[1] + 1].content.parts)
        /\ messages[ij[1] + 1].content.parts[ij[2]] = id
Before(id1, id2) ==
    \/ PlaceOf(id1)[1] < PlaceOf(id2)[1]
    \/ PlaceOf(id1)[1] = PlaceOf(id2)[1] /\ PlaceOf(id1)[2] < PlaceOf(id2)[2]

\* the calls in which adapter.write raised
FailedWrites == {n \in 1..Len(calls) : calls[n].op = "write" /\ ~calls[n].ok}

\* C10: when adapter.write raises at a part, the call raises; that write is the last
\* call made to the adapter and the only write for the part; no part after it has been
\* touched; and every part written earlier in the call is still a "Written to"
\* reference whose (identity, key) pair is registered.
C10_WriteFailure ==
    \A n \in FailedWrites :
        /\ pc = "raised"
        /\ n = Len(calls)
        /\ \A m \in 1..Len(calls) :
              (calls[m].op = "write" /\ calls[m].part = calls[n].part) => m = n
        /\ \A id \in AllPartIds :
              (id = calls[n].part \/ Before(calls[n].part, id)) => heap[id] = pre.heap[id]
        /\ \A m \in 1..(n - 1) :
              calls[m].op = "write" =>
                  /\ calls[m].ok
                  /\ IsWrittenRef(calls[m].part)
                  /\ WrittenKey(calls[m].part) = calls[m].key
                  /\ <<adapter_str(opts.adapter), calls[m].key>> \in registry

\* a write has raised after an earlier part was written, with a part still to come
C10_Witness ==
    /\ pc = "raised"
    /\ \E n \in FailedWrites :
          /\ \E m \in 1..(n - 1) : calls[m].op = "write" /\ calls[m].ok
          /\ \E id \in WriterParts : Before(calls[n].part, id)

(* ---- the registry ---- *)

\* the storage identities and the keys that callers ask the registry about
Identities == {adapter_str(a) : a \in Adapters}
QueryKeys == AskKeys \cup {r[2] : r \in registered}

\* C11: is_known_key(s, k) is true exactly when register_known_key has been called
\* with that identity and that key since the last clear_known_keys(); a pair that
\* shares only the identity or only the key with a registered one is not known, and
\* after a clear no pair is known.
C11_ExactPair ==
    \A s \in Identities, k \in QueryKeys :
        is_known_key(registry, s, k) <=> <<s, k>> \in registered

\* a caller has registered one pair itself: the pair is known, the same key under the
\* other identity and another key under the same identity are not
C11_Witness ==
    /\ messages = <<>>
    /\ registered = {<<adapter_str(AdapterA), Key0>>}
    /\ is_known_key(registry, adapter_str(AdapterA), Key0)
    /\ ~is_known_key(registry, adapter_str(AdapterS), Key0)
    /\ ~is_known_key(registry, adapter_str(AdapterA), resolve_key(AdapterA, FileName(1)))

\* C12: no step of a compaction call, a read_file call, a grep_and_search_file call or
\* a register call takes a pair out of the registry; the only step that does is
\* clear_known_keys(), taken between calls, and it leaves the registry empty.
C12_Monotonic ==
    [][\/ registry \subseteq registry'
       \/ /\ registry' = {}
          /\ pc = "idle" /\ pc' = "idle"
          /\ UNCHANGED <<messages, heap, store, nextId, opts, lastCall>>]_vars

\* a pair that only a caller can have registered is still known after a compaction
\* call has written results and a reader tool has been called
C12_Witness ==
    /\ pc = "read"
    /\ written # {}
    /\ <<adapter_str(AdapterS), Key0>> \in registry
    /\ Cardinality(registry) > 2

(* ---- the window ---- *)

\* detect_window_range has returned win for messages and opts.boundary
Ranged == pc = "ranged"

\* the message at index i (0-based) is a user or assistant message with text content
IsTextTurn(i) ==
    /\ messages[i + 1].role \in {"assistant", "user"}
    /\ \/ messages[i + 1].content.t = "str"
       \/ /\ messages[i + 1].content.t = "list"
          /\ \E j \in 1..Len(messages[i + 1].content.parts) :
                /\ heap[messages[i + 1].content.parts[j]].type = "text"
                /\ heap[messages[i + 1].content.parts[j]].text.t = "str"

\* the indices up to length - 2 that hold a user or assistant text message
TextTurns == {i \in 0..(Len(messages) - 2) : IsTextTurn(i)}

\* C13: with the default boundary and a sequence longer than 1, start is i + 1 for the
\* largest index i <= length - 2 that holds a user or assistant message with text
\* content, and 0 when there is none; so no message inside the window is such a message
\* and every index up to i lies before the window.
C13_DefaultBoundary ==
    (Ranged /\ opts.boundary = SinceLastText /\ Len(messages) > 1) =>
        /\ TextTurns = {} => win[1] = 0
        /\ \A i \in TextTurns : (\A k \in TextTurns : k <= i) => win[1] = i + 1
        /\ \A j \in win[1]..(win[2] - 1) : ~IsTextTurn(j)
        /\ \A i \in TextTurns : i < win[1]

\* the default window of a sequence in which a text turn is followed by a message that
\* has text content but is a tool message, and preceded by another text turn
C13_Witness ==
    /\ Ranged /\ opts.boundary = SinceLastText
    /\ Len(messages) = MaxWinLen
    /\ Cardinality(TextTurns) > 1
    /\ win[1] < win[2]
    /\ \E j \in win[1]..(win[2] - 1) :
          messages[j + 1].role = "tool" /\ messages[j + 1].content.t = "str"

\* C14: with first-n-messages and a count >= 0 the window start is
\* clamp(count, 0, max(0, length - 1)), also for a count beyond the length; a count of
\* length - 1 or more gives an empty window.
C14_FirstN ==
    (Ranged /\ opts.boundary.type = "first-n-messages" /\ opts.boundary.count >= 0) =>
        /\ win[1] = (IF Len(messages) = 0 THEN 0
                     ELSE IF opts.boundary.count > Len(messages) - 1
                          THEN Len(messages) - 1
                          ELSE opts.boundary.count)
        /\ opts.boundary.count >= Len(messages) - 1 => win[1] >= win[2]

\* a count beyond the length of a sequence of several messages
C14_Witness ==
    /\ Ranged /\ opts.boundary.type = "first-n-messages"
    /\ Len(messages) > 2
    /\ opts.boundary.count > Len(messages)
    /\ win[1] = Len(messages) - 1

\* C15: with entire-conversation, for every sequence, the empty one and a single
\* message included, start is 0 and end_exclusive is max(0, length - 1).
C15_EntireConversation ==
    (Ranged /\ opts.boundary = EntireConversation) =>
        /\ win[1] = 0
        /\ win[2] = (IF Len(messages) = 0 THEN 0 ELSE Len(messages) - 1)

\* the entire-conversation window of a sequence that holds text turns in its middle
C15_Witness ==
    /\ Ranged /\ opts.boundary = EntireConversation
    /\ Len(messages) > 2
    /\ TextTurns # {}
    /\ win = <<0, Len(messages) - 1>>

\* a 5-message sequence whose message at index 2 is an assistant message with string
\* content, asked for its default window
FiveWithAssistantAtTwo ==
    /\ Ranged /\ opts.boundary = SinceLastText
    /\ Len(messages) = 5
    /\ messages[3].role = "assistant" /\ messages[3].content.t = "str"

\* C16 as stated: for every such sequence, whatever the messages at indices 0, 1 and 3
\* are, start is 3.
C16_AsStated == FiveWithAssistantAtTwo => win[1] = 3

\* C16: for every such sequence start is 3 when the message at index 3 is not a user or
\* assistant message with text content, and 4 when it is, whatever the messages at
\* indices 0 and 1 are.
C16_StartAfterIndexTwo ==
    FiveWithAssistantAtTwo => win[1] = (IF IsTextTurn(3) THEN 4 ELSE 3)

\* such a sequence with a tool message at index 3 and text turns at indices 0 and 1
C16_Witness ==
    /\ FiveWithAssistantAtTwo
    /\ IsTextTurn(0) /\ IsTextTurn(1)
    /\ messages[4].role = "tool"
    /\ win[1] = 3

\* C17 as stated: for every sequence, of length 0 and 1 too, and every boundary, the
\* end index of the window is strictly less than the length of the sequence and the
\* window does not hold the index of the last message.
C17_AsStated ==
    Ranged =>
        /\ win[2] < Len(messages)
        /\ Len(messages) - 1 \notin win[1]..(win[2] - 1)

\* C17: for every sequence and every boundary the window does not hold the index of the
\* last message, and never begins after its end; its end index is max(0, length - 1):
\* strictly less than the length for every sequence but the empty one, where the
\* window is (0, 0).
C17_WindowInvariant ==
    Ranged =>
        /\ Len(messages) - 1 \notin win[1]..(win[2] - 1)
        /\ win[1] <= win[2]
        /\ Len(messages) > 0 => win[2] < Len(messages)
        /\ Len(messages) <= 1 => win = <<0, 0>>
        /\ win[2] = (IF Len(messages) = 0 THEN 0 ELSE Len(messages) - 1)

\* a window that holds every message but the last
C17_Witness ==
    /\ Ranged
    /\ Len(messages) = MaxWinLen
    /\ win = <<0, Len(messages) - 1>>
    /\ IsTextTurn(Len(messages) - 1)

(* ---- failures of the reader tools ---- *)

\* the content ends with the advice to make the original tool call again
AdvisesRetry ==
    /\ Len(lastCall.result.content) > Len(RetryText)
    /\ SubSeq(lastCall.result.content,
              Len(lastCall.result.content) - Len(RetryText) + 1,
              Len(lastCall.result.content)) = RetryText

\* the key asked for is known for the adapter, and the adapter holds nothing under it
AskedKnownButAbsent ==
    /\ AskedAdapter /\ AskedKnown
    /\ StoragePath(lastCall.adapter, lastCall.key) \notin DOMAIN store

\* C18: read_file never raises: it returns a dict carrying the requested key, and when
\* the storage option cannot be resolved, or the key is known but nothing is stored
\* under it, the content is an "Error reading file" message that advises to make the
\* original tool call again.
C18_ReadFileNeverRaises ==
    (pc = "read" /\ lastCall.tool = "readFile") =>
        /\ ~lastCall.result.raised
        /\ lastCall.result.key = lastCall.key
        /\ (~AskedAdapter \/ AskedKnownButAbsent) =>
              /\ lastCall.result.content[1] = "Error reading file: "
              /\ AdvisesRetry

\* read_file has been called with a known key under which nothing is stored
C18_Witness ==
    /\ pc = "read" /\ lastCall.tool = "readFile"
    /\ AskedKnownButAbsent
    /\ lastCall.result.reads # <<>>
    /\ AdvisesRetry

\* C19 as stated: grep_and_search_file, called with a pattern that compiles and a known
\* key whose read fails because nothing is stored under it, returns a failure payload
\* whose content advises to make the original tool call again, and no match list.
C19_SearchReadFailure ==
    (/\ pc = "read" /\ lastCall.tool = "grepAndSearchFile"
     /\ lastCall.pattern.valid
     /\ AskedKnownButAbsent)
    => /\ ~lastCall.result.hasMatches
       /\ AdvisesRetry

\* C20: grep_and_search_file called with a pattern that does not compile, for a key
\* known or unknown, returns a dict whose content starts with "Invalid regex" and that
\* carries the key and the pattern; it raises nothing, reads nothing from the storage
\* and leaves the registry as it was.
C20_InvalidPattern ==
    [][(/\ pc = "idle" /\ pc' = "read"
        /\ lastCall'.tool = "grepAndSearchFile"
        /\ ~lastCall'.pattern.valid)
       => /\ lastCall'.result.content[1] = "Invalid regex: "
          /\ lastCall'.result.pattern = lastCall'.pattern.tok
          /\ lastCall'.result.key = lastCall'.key
          /\ ~lastCall'.result.raised
          /\ ~lastCall'.result.hasMatches
          /\ lastCall'.result.reads = <<>>
          /\ registry' = registry
          /\ store' = store]_vars

\* a pattern that does not compile was given with a known key whose object is stored
C20_Witness ==
    /\ pc = "read" /\ lastCall.tool = "grepAndSearchFile"
    /\ ~lastCall.pattern.valid
    /\ AskedAdapter /\ AskedKnown
    /\ StoragePath(lastCall.adapter, lastCall.key) \in DOMAIN store
    /\ lastCall.result.content[1] = "Invalid regex: "

(* ---- key sanitization ---- *)

\* a string holds the path-traversal sequence "../"
HasDotDotSlash(s) ==
    \E i \in 1..(Len(s) - 2) : s[i] = "." /\ s[i + 1] = "." /\ s[i + 2] = "/"

\* C22 as stated: for every logical name, FileStorageAdapter.resolve_key returns a key
\* that holds no "../" and does not start with "/", prefixed by "<prefix>/" when the
\* adapter has a prefix.
C22_KeySanitized ==
    pc = "resolved" =>
        LET a == lastCall.adapter
            key == lastCall.result.key
        IN /\ ~HasDotDotSlash(key)
           /\ ~StartsWith(key, "/")
           /\ Len(a.prefix) > 0 =>
                 /\ Len(key) > Len(RStrip(a.prefix, "/"))
                 /\ SubSeq(key, 1, Len(RStrip(a.prefix, "/")) + 1)
                       = RStrip(a.prefix, "/") \o <<"/">>

(* ---- the caller's input, and where registry entries come from ---- *)

\* C23 as stated: after a compaction call has returned, the input list and every
\* message and part reachable from it are what they were before the call; the
\* substitutions show only in the returned sequence.
C23_InputNotMutated ==
    pc = "returned" =>
        /\ \A id \in AllPartIds : heap[id] = pre.heap[id]
        /\ Len(msgs) = Len(messages)

\* a step of a compaction call that handles the part id by the reader path, whose
\* output named a storage and a key
ReaderPathStep(id) ==
    /\ pc = "running"
    /\ heap'[id] # heap[id]
    /\ heap[id].toolName \in ReaderNames
    /\ Truthy(ExtractMeta(heap[id].output).storage)
    /\ Truthy(ExtractMeta(heap[id].output).key)

\* the key k has been written by this step of a compaction call, under a fresh name
WriterPathStep(k) ==
    /\ pc = "running"
    /\ Len(calls') = Len(calls) + 2
    /\ calls'[Len(calls')] = [op |-> "write", part |-> calls'[Len(calls')].part,
                              key |-> k, ok |-> TRUE]
    /\ StoragePath(opts.adapter, k) \notin DOMAIN store
    /\ StoragePath(opts.adapter, k) \in DOMAIN store'

\* C24: read_file and grep_and_search_file leave the registry as it was in every
\* outcome; a step of a compaction call takes no entry out of the registry, and an
\* entry it adds is either (str(adapter), k) for a key k that the step has just written
\* or the (storage, key) named by the reader-tool output that the step has replaced;
\* only clear_known_keys(), between calls, removes entries.
C24_EntriesFromCompaction ==
    [][/\ (pc = "idle" /\ pc' = "read") => registry' = registry
       /\ (pc # "idle" \/ pc' # "idle") =>
             /\ registry \subseteq registry'
             /\ \A r \in registry' \ registry :
                   \/ r[1] = adapter_str(opts.adapter) /\ WriterPathStep(r[2])
                   \/ \E id \in AllPartIds :
                         /\ ReaderPathStep(id)
                         /\ r = <<ExtractMeta(heap[id].output).storage.s,
                                  ExtractMeta(heap[id].output).key.s>>]_vars

\* a reader tool has rejected an unknown key while the registry held an entry of the
\* writer path and an entry of the reader-metadata path
C24_Witness ==
    /\ pc = "read"
    /\ IsUnknownKeyResult
    /\ \E w \in written : ~w.cleared /\ <<w.storage, w.key>> \in registry
    /\ <<adapter_str(AdapterA), Key0>> \in registry
    /\ \A w \in written : w.key # Key0

(* ---- order of processing ---- *)

\* the places <<i, j>> at which the part id occurs inside the window
PlacesOf(id) ==
    {ij \in (win[1]..(win[2] - 1)) \X (1..Len(heap)) :
        /\ ij[1] < Len(messages)
        /\ messages[ij[1] + 1].content.t = "list"
        /\ ij[2] <= Len(messages[ij[1] + 1].content.parts)
        /\ messages[ij[1] + 1].content.parts[ij[2]] = id}

PlaceBefore(p, q) == p[1] < q[1] \/ (p[1] = q[1] /\ p[2] < q[2])

\* its first place there, in message order and then part order
FirstPlace(id) ==
    CHOOSE p \in PlacesOf(id) : \A q \in PlacesOf(id) : p = q \/ PlaceBefore(p, q)

\* the calls of the compaction call that are storage writes
Writes == {n \in 1..Len(calls) : calls[n].op = "write"}

\* the storage writes are issued in message order and then part order, one at most for
\* each part
WritesInOrder ==
    InCall =>
        \A m \in Writes, n \in Writes :
            m < n => /\ calls[m].part # calls[n].part
                     /\ PlaceBefore(FirstPlace(calls[m].part), FirstPlace(calls[n].part))

\* C25 as stated: within one compaction call the storage writes are issued in message
\* order and then part order, and each part causes at most one storage write and at
\* most one substitution, also when the same part object occurs more than once inside
\* the window.
C25_OncePerPart ==
    [][/\ WritesInOrder'
       /\ (InCall /\ pc' # "idle") =>
             \A id \in 1..Len(heap) : heap[id] # pre.heap[id] => heap'[id] = heap[id]]_vars

(* ---- the sandbox over a run of calls ---- *)

\* C26 as stated: in a run of compaction calls and reader-tool calls in which the
\* reader results of the conversation are the results the reader tools returned, a
\* reader tool reaches the storage only for a key that the writer path wrote under the
\* adapter asked; a key rejected as unknown stays unknown after its rejection result
\* has been compacted.
C26_Sandbox ==
    (pc = "read" /\ lastCall.result.reads # <<>>) =>
        \E w \in written :
            w.storage = adapter_str(lastCall.adapter) /\ w.key = lastCall.key

(* ---- compacting the result of a compaction ---- *)

\* the call at hand has been given the kept result of an earlier call, and the options
\* of that call
Recompacting ==
    /\ InCall
    /\ prev.kept
    /\ prev.opts = opts
    /\ prev.heap = pre.heap

\* C27: a compaction call with the same options on the result of a compaction call
\* that returned issues no resolve_key and no write, leaves the storage as it is and
\* adds no registry entry.
C27_RecompactionWritesNothing ==
    Recompacting =>
        /\ calls = <<>>
        /\ store = pre.store
        /\ registry = pre.registry

\* the second call has returned on a result that holds a written and a read reference
\* inside its window
C27_Witness ==
    /\ pc = "returned"
    /\ Recompacting
    /\ \E id \in WindowParts : IsWrittenRef(id) /\ pre.heap[id] = heap[id]
    /\ \E id \in WindowParts : pre.heap[id].toolName = "readFile"
    /\ written # {}

\* C28 as stated: compact(compact(m)) has the part outputs of compact(m): a part
\* replaced by "Read from storage: ... Key: k" or by "Written to ... Key: k" keeps that
\* text when the result is compacted again with the same options.
C28_IdempotentOutputs ==
    (pc = "returned" /\ Recompacting) =>
        \A id \in AllPartIds : heap[id].output = pre.heap[id].output

\* the outputs of the parts that are not a reader tool's, written references among
\* them, are kept
WriterOutputsKept ==
    (pc = "returned" /\ Recompacting) =>
        \A id \in AllPartIds : ~WasReaderPart(id) => heap[id].output = pre.heap[id].output

(* ---- the default storage ---- *)

\* C30 as stated: a key surfaced by a compaction call made with the default storage is
\* read back by read_file and searched by grep_and_search_file called with default
\* options: the reader's default storage has the identity of the storage the call wrote
\* to, read_file returns the body written and grep_and_search_file a match list.
C30_DefaultRoundTrip ==
    (pc = "read" /\ lastCall.pattern.valid) =>
        \A w \in written :
            w.key = lastCall.key =>
                /\ adapter_str(lastCall.adapter) = w.storage
                /\ lastCall.tool = "readFile" => lastCall.result.content = w.body
                /\ lastCall.tool = "grepAndSearchFile" => lastCall.result.hasMatches

(* ---- calls that run at the same time ---- *)

Spawned == pc = "threads"

\* C21: under every interleaving of two compaction calls and a caller of read_file
\* that share the registry, no registration is lost: every pair a call has registered
\* is in the registry from then on; and a read_file call that began after a compaction
\* call that registered (identity, key) had returned finds that pair known.
C21_SharedRegistry ==
    Spawned =>
        /\ \A t \in Compactors : threads[t].regs \subseteq registry
        /\ \A r \in Readers :
              (/\ threads[r].pc \in {"reading", "done"}
               /\ <<adapter_str(threads[r].adapter), threads[r].key>> \in threads[r].after)
              => /\ threads[r].known
                 /\ threads[r].content # UnknownKeyText

\* a read_file call that began after one compaction call had returned has found a pair
\* of that call known, while the other compaction call, on the same storage, is in the
\* middle of its writer path
C21_Witness ==
    /\ Spawned
    /\ threads["r1"].pc = "done"
    /\ threads["r1"].known
    /\ <<adapter_str(threads["r1"].adapter), threads["r1"].key>> \in threads["r1"].after
    /\ \E t \in Compactors :
          /\ threads[t].pc \in {"write", "substitute", "register"}
          /\ threads[t].adapter = threads["r1"].adapter
    /\ Cardinality(registry) > 2

\* the key that a "Written to ..." text of thread t surfaces
SurfacedKey(output) == KeyIn(output.value.s, Len(output.value.s) - 1)
IsWrittenText(output) ==
    /\ IsTextValue(output)
    /\ Len(output.value.s) > 0
    /\ output.value.s[1] \in {"Written to file", "Written to storage"}

\* the storage of thread t holds an object under key k
Stored(t, k) == StoragePath(threads[t].adapter, k) \in DOMAIN store

\* C29: at every point during and after a compaction call, also while other calls
\* run, a key of the call that is registered, and the key of every "Written to ...
\* Key: k" reference in its messages, is a key whose write has completed; and when the
\* write for a part has raised, the part has its original output and its key is not
\* registered.
C29_WriteFirst ==
    Spawned =>
        \A t \in Compactors :
            /\ \A k \in threads[t].keys :
                  <<adapter_str(threads[t].adapter), k>> \in registry => Stored(t, k)
            /\ \A id \in 1..Len(threads[t].heap) :
                  IsWrittenText(threads[t].heap[id].output) =>
                      /\ SurfacedKey(threads[t].heap[id].output) \in threads[t].keys
                      /\ Stored(t, SurfacedKey(threads[t].heap[id].output))
            /\ threads[t].pc = "raised" =>
                  /\ threads[t].heap[threads[t].at] = threads[t].before[threads[t].at]
                  /\ <<adapter_str(threads[t].adapter), threads[t].key>> \notin registry

\* a call has raised at its second write, after its first part was written, replaced
\* and registered, while the other call has written a key that it has not yet
\* registered
C29_Witness ==
    /\ Spawned
    /\ \E t \in Compactors :
          /\ threads[t].pc = "raised"
          /\ Cardinality(threads[t].keys) = 2
          /\ \E k \in threads[t].keys :
                <<adapter_str(threads[t].adapter), k>> \in registry /\ Stored(t, k)
    /\ \E t \in Compactors :
          /\ threads[t].pc = "substitute"
          /\ Stored(t, threads[t].key)
          /\ <<adapter_str(threads[t].adapter), threads[t].key>> \notin registry
====
